---- MODULE Spec2Model ----
(***************************************************************************)
(* A model of tools/check_sha.py: the manifest (WORKSPACE) parser, the     *)
(* variable environment, the asset collections with their validation and   *)
(* replacement reports, the two patch writers and the run modes of main.   *)
(*                                                                         *)
(* Text is modelled character by character: a string is a sequence of      *)
(* one-character strings, a file is the sequence of its lines.  Python's     *)
(* None is the one-element sequence None, which is no string because its   *)
(* element is not a single character.  A dict is the sequence of its       *)
(* items in insertion order (Python 3.7 and later).                        *)
(***************************************************************************)
EXTENDS Integers, Sequences, FiniteSets, TLC

VARIABLES
    pc,        \* the position of the run
    args,      \* the command line flags of main
    file,      \* the content of the manifest file on disk
    file0,     \* the content of the manifest file when the run started
    scan,      \* the state of the line scanner of assets_from_bazel_file
    groupA,    \* the manifest collection (AssetGroup 'FILE')
    groupB,    \* the reference collection
    todo,      \* the replacements replace_shas_in_file has still to apply
    out,       \* what the run has reported and returned
    effects    \* the file writes and reference lookups made so far

vars == <<pc, args, file, file0, scan, groupA, groupB, todo, out, effects>>

----------------------------------------------------------------------------
(* Strings *)

None == <<"None">>

IsNone(v) == v = None

\* Python's truth value of an optional string: None and '' are false.
Truthy(v) == v # None /\ v # <<>>

Whitespace == {" ", "\t", "\n", "\r"}

RECURSIVE lstrip(_)
lstrip(s) ==
    IF s # <<>> /\ Head(s) \in Whitespace THEN lstrip(Tail(s)) ELSE s

RECURSIVE rstrip(_)
rstrip(s) ==
    IF s # <<>> /\ s[Len(s)] \in Whitespace
    THEN rstrip(SubSeq(s, 1, Len(s) - 1)) ELSE s

strip(s) == lstrip(rstrip(s))

RECURSIVE lstrip_spaces(_)
lstrip_spaces(s) ==
    IF s # <<>> /\ Head(s) = " " THEN lstrip_spaces(Tail(s)) ELSE s

startswith(s, p) == Len(p) <= Len(s) /\ SubSeq(s, 1, Len(p)) = p

endswith(s, p) ==
    Len(p) <= Len(s) /\ SubSeq(s, Len(s) - Len(p) + 1, Len(s)) = p

OccursAt(s, sub, i) ==
    i >= 1 /\ i + Len(sub) - 1 <= Len(s) /\ SubSeq(s, i, i + Len(sub) - 1) = sub

\* sub in s
contains(s, sub) == \E i \in 1..(Len(s) + 1) : OccursAt(s, sub, i)

\* The first index at or after i where sub occurs in s, 0 when there is none.
RECURSIVE find(_, _, _)
find(s, sub, i) ==
    IF i + Len(sub) - 1 > Len(s) THEN 0
    ELSE IF OccursAt(s, sub, i) THEN i
    ELSE find(s, sub, i + 1)

RECURSIVE Interleave(_, _)
Interleave(s, new) ==
    IF s = <<>> THEN new ELSE new \o <<Head(s)>> \o Interleave(Tail(s), new)

RECURSIVE ReplaceFrom(_, _, _, _)
ReplaceFrom(s, old, new, i) ==
    IF i > Len(s) THEN <<>>
    ELSE IF OccursAt(s, old, i)
         THEN new \o ReplaceFrom(s, old, new, i + Len(old))
         ELSE <<s[i]>> \o ReplaceFrom(s, old, new, i + 1)

\* str.replace: every non-overlapping occurrence, leftmost first; an empty
\* old matches before every character and at the end.
replace(s, old, new) ==
    IF old = <<>> THEN Interleave(s, new) ELSE ReplaceFrom(s, old, new, 1)

\* str.split on a one-character delimiter.
RECURSIVE split(_, _)
split(s, d) ==
    LET i == find(s, <<d>>, 1)
    IN  IF i = 0 THEN <<s>>
        ELSE <<SubSeq(s, 1, i - 1)>> \o split(SubSeq(s, i + 1, Len(s)), d)

Range(f) == {f[i] : i \in DOMAIN f}

----------------------------------------------------------------------------
(* Text files *)

\* A file is the sequence of its physical lines, each with the line
\* terminator found on disk ("\n", "\r\n" or "\r"; the last line may have
\* none), so two files are byte-identical exactly when they are equal.

\* open(filename) reads with universal newlines: "\r\n" and a lone "\r"
\* both reach the program as "\n".
UniversalNewline(raw) ==
    IF endswith(raw, <<"\r", "\n">>)
    THEN SubSeq(raw, 1, Len(raw) - 2) \o <<"\n">>
    ELSE IF endswith(raw, <<"\r">>)
    THEN SubSeq(raw, 1, Len(raw) - 1) \o <<"\n">>
    ELSE raw

\* file_in.readlines(), and the lines "for line in file_in" yields.
readlines(f) == [i \in DOMAIN f |-> UniversalNewline(f[i])]

\* open(filename, 'w') and file.writelines(data), where the platform's line
\* separator is "\n": the lines are written as they are.
writelines(data) == data

----------------------------------------------------------------------------
(* Literals of the program *)

L_maven_jar == <<"m","a","v","e","n","_","j","a","r","(">>
L_close == <<")">>
L_plus == <<" ","+"," ">>
L_name == <<"n","a","m","e">>
L_artifact == <<"a","r","t","i","f","a","c","t">>
L_repository == <<"r","e","p","o","s","i","t","o","r","y">>
L_sha1 == <<"s","h","a","1">>
L_src_sha1 == <<"s","r","c","_","s","h","a","1">>
L_old_version == <<"o","l","d","_","v","e","r","s","i","o","n">>
L_SNAPSHOT == <<"S","N","A","P","S","H","O","T">>
L_WANDISCO == <<"W","A","N","D","I","S","C","O">>
L_ASSETS == <<"_","A","S","S","E","T","S">>
L_GERRIT == <<"G","E","R","R","I","T">>
L_GERRIT_API == <<"G","E","R","R","I","T","_","A","P","I">>
L_MAVEN_CENTRAL == <<"M","A","V","E","N","_","C","E","N","T","R","A","L">>
L_MAVEN_LOCAL == <<"M","A","V","E","N","_","L","O","C","A","L">>
L_ECLIPSE == <<"E","C","L","I","P","S","E">>

known_repos ==
    << [k |-> L_GERRIT, v |-> L_GERRIT \o <<":">>],
       [k |-> L_GERRIT_API, v |-> L_GERRIT_API \o <<":">>],
       [k |-> L_MAVEN_CENTRAL, v |-> L_MAVEN_CENTRAL \o <<":">>],
       [k |-> L_MAVEN_LOCAL, v |-> L_MAVEN_LOCAL \o <<":">>],
       [k |-> L_ECLIPSE, v |-> L_ECLIPSE \o <<":">>],
       [k |-> L_WANDISCO \o L_ASSETS, v |-> L_WANDISCO \o <<":">>] >>

\* Dicts: k in d, d[k], d[k] = v.
HasKey(d, k) == \E i \in DOMAIN d : d[i].k = k

Lookup(d, k) == d[CHOOSE i \in DOMAIN d : d[i].k = k].v

DictSet(d, k, v) ==
    IF HasKey(d, k)
    THEN [i \in DOMAIN d |-> IF d[i].k = k THEN [k |-> k, v |-> v] ELSE d[i]]
    ELSE Append(d, [k |-> k, v |-> v])

----------------------------------------------------------------------------
(* Asset *)

Asset ==
    [name |-> None, artifact |-> None, repository |-> None,
     sha1 |-> None, src_sha1 |-> None, old_version |-> None]

\* Asset.__setitem__: keys that are no member of Asset are dropped.
SetItem(asset, k, v) ==
    IF k = L_name THEN [asset EXCEPT !.name = v]
    ELSE IF k = L_artifact THEN [asset EXCEPT !.artifact = v]
    ELSE IF k = L_repository THEN [asset EXCEPT !.repository = v]
    ELSE IF k = L_sha1 THEN [asset EXCEPT !.sha1 = v]
    ELSE IF k = L_src_sha1 THEN [asset EXCEPT !.src_sha1 = v]
    ELSE IF k = L_old_version THEN [asset EXCEPT !.old_version = v]
    ELSE asset

\* hasattr(asset, k) and getattr(asset, k)
HasAttr(k) ==
    k \in {L_name, L_artifact, L_repository, L_sha1, L_src_sha1, L_old_version}

GetAttr(asset, k) ==
    IF k = L_name THEN asset.name
    ELSE IF k = L_artifact THEN asset.artifact
    ELSE IF k = L_repository THEN asset.repository
    ELSE IF k = L_sha1 THEN asset.sha1
    ELSE IF k = L_src_sha1 THEN asset.src_sha1
    ELSE asset.old_version

----------------------------------------------------------------------------
(* The line patterns and parse_property *)

\* re.match("^maven_jar\(.*$", line)
IsRecordOpen(line) == startswith(line, L_maven_jar)

\* re.match("^\)$", line)
IsRecordClose(line) == line = L_close

\* re.match("[^=]+=[^=]+", line): the first "=" has a character before it
\* and a character other than "=" after it.
IsAssignment(line) ==
    LET i == find(line, <<"=">>, 1)
    IN  i > 1 /\ i < Len(line) /\ line[i + 1] # "="

parse_property(s) ==
    LET parts == split(s, "=")
        key == strip(replace(parts[1], <<"#">>, <<>>))
        val == replace(replace(strip(split(parts[2], "#")[1]),
                               <<"\"">>, <<>>), <<",">>, <<>>)
    IN  [k |-> key, v |-> val]

----------------------------------------------------------------------------
(* assets_from_bazel_file: the line scanner *)

\* The scanner before the first line: no current asset, nothing collected.
ScanInit ==
    [i |-> 1, inside |-> FALSE, current_asset |-> Asset,
     assets |-> <<>>, env |-> <<>>]

\* A scanner that keeps the record it was reading when another open marker
\* arrives.
ScanLineKeepingOpen(st, raw) ==
    LET kept == IF st.inside /\ IsRecordOpen(strip(raw))
                THEN [st EXCEPT !.assets = Append(@, st.current_asset)]
                ELSE st
        line == strip(raw)
        opened == IsRecordOpen(line)
        inside1 == kept.inside \/ opened
        cur1 == IF opened THEN Asset ELSE kept.current_asset
        closed == inside1 /\ IsRecordClose(line)
        assets2 == IF closed THEN Append(kept.assets, cur1) ELSE kept.assets
        inside2 == inside1 /\ ~closed
        cur2 == IF inside2 THEN cur1 ELSE Asset
        kv == parse_property(line)
    IN  IF ~IsAssignment(line)
        THEN [i |-> st.i + 1, inside |-> inside2, current_asset |-> cur2,
              assets |-> assets2, env |-> st.env]
        ELSE IF ~inside2
        THEN [i |-> st.i + 1, inside |-> inside2, current_asset |-> cur2,
              assets |-> assets2, env |-> DictSet(st.env, kv.k, kv.v)]
        ELSE [i |-> st.i + 1, inside |-> inside2,
              current_asset |-> SetItem(cur2, kv.k, kv.v),
              assets |-> assets2, env |-> st.env]

\* The body of the loop over the lines of the file, for one line.
ScanLine(st, raw) ==
    LET line == strip(raw)
        opened == IsRecordOpen(line)
        inside1 == st.inside \/ opened
        cur1 == IF opened THEN Asset ELSE st.current_asset
        closed == inside1 /\ IsRecordClose(line)
        assets2 == IF closed THEN Append(st.assets, cur1) ELSE st.assets
        inside2 == inside1 /\ ~closed
        cur2 == IF inside2 THEN cur1 ELSE Asset
        kv == parse_property(line)
    IN  IF ~IsAssignment(line)
        THEN [i |-> st.i + 1, inside |-> inside2, current_asset |-> cur2,
              assets |-> assets2, env |-> st.env]
        ELSE IF ~inside2
        THEN [i |-> st.i + 1, inside |-> inside2, current_asset |-> cur2,
              assets |-> assets2, env |-> DictSet(st.env, kv.k, kv.v)]
        ELSE [i |-> st.i + 1, inside |-> inside2,
              current_asset |-> SetItem(cur2, kv.k, kv.v),
              assets |-> assets2, env |-> st.env]

RECURSIVE ScanLines(_, _)
ScanLines(st, lines) ==
    IF st.i > Len(lines) THEN st ELSE ScanLines(ScanLine(st, lines[st.i]), lines)

----------------------------------------------------------------------------
(* assets_from_bazel_file: variable resolution *)

\* for l,m in env.items(): val = val.replace(l, m)
RECURSIVE SubstituteAll(_, _, _)
SubstituteAll(val, env, i) ==
    IF i > Len(env) THEN val
    ELSE SubstituteAll(replace(val, env[i].k, env[i].v), env, i + 1)

\* The value the environment pass gives one declared variable.
ResolveValue(v, env) ==
    IF HasKey(known_repos, v) THEN Lookup(known_repos, v)
    ELSE SubstituteAll(replace(v, L_plus, <<>>), env, 1)

\* "Resolve Variables in environment": every value is computed from the
\* values as declared, and env.update(updates) stores them all at the end.
ResolveEnv(env) ==
    [i \in DOMAIN env |-> [k |-> env[i].k, v |-> ResolveValue(env[i].v, env)]]

\* A variant that leaves the concatenation ' + ' in the artifact.
RECURSIVE SubstituteAssetKeepingPlus(_, _, _)
SubstituteAssetKeepingPlus(asset, env, i) ==
    IF i > Len(env) THEN asset
    ELSE LET art == IF Truthy(asset.artifact)
                    THEN replace(asset.artifact, env[i].k, env[i].v)
                    ELSE asset.artifact
             rep == IF Truthy(asset.repository)
                    THEN replace(asset.repository, env[i].k, env[i].v)
                    ELSE asset.repository
         IN  SubstituteAssetKeepingPlus(
                 [asset EXCEPT !.artifact = art, !.repository = rep], env, i + 1)

\* The loop over the environment for one asset's artifact and repository.
RECURSIVE SubstituteAsset(_, _, _)
SubstituteAsset(asset, env, i) ==
    IF i > Len(env) THEN asset
    ELSE LET art == IF Truthy(asset.artifact)
                    THEN replace(replace(asset.artifact, L_plus, <<>>),
                                 env[i].k, env[i].v)
                    ELSE asset.artifact
             rep == IF Truthy(asset.repository)
                    THEN replace(asset.repository, env[i].k, env[i].v)
                    ELSE asset.repository
         IN  SubstituteAsset([asset EXCEPT !.artifact = art, !.repository = rep],
                             env, i + 1)

ResolveAsset(asset, env) ==
    LET a == SubstituteAsset(asset, env, 1)
    IN  IF HasKey(known_repos, a.repository)
        THEN [a EXCEPT !.repository = Lookup(known_repos, a.repository)]
        ELSE a

ResolveAssets(assets, env) ==
    [i \in DOMAIN assets |-> ResolveAsset(assets[i], env)]

\* AssetGroup.__init__ and the groups the loaders return.
AssetGroup(source_type, assets, env) ==
    [source_type |-> source_type, assets |-> assets, env |-> env]

assets_from_bazel_file(text) ==
    LET st == ScanLines(ScanInit, readlines(text))
        env == ResolveEnv(st.env)
    IN  AssetGroup("FILE", ResolveAssets(st.assets, env), env)

----------------------------------------------------------------------------
(* AssetGroup *)

\* The index pairs of "for a in xs for b in ys", in iteration order.
Pairs(n, m) ==
    [k \in 1..(n * m) |-> <<((k - 1) \div m) + 1, ((k - 1) % m) + 1>>]

\* A variant that takes an absent digest for a digest that differs.
IsReplacementIgnoringAbsence(a, b) ==
    a.artifact = b.artifact /\ a.sha1 # b.sha1

\* The pairs of assets make_replacement_set keeps.
IsReplacement(a, b) ==
    a.artifact = b.artifact /\ a.sha1 # b.sha1 /\ a.sha1 # None /\ b.sha1 # None

\* [(artifact, old-sha, new-sha), ...]; TypeError when self is no 'FILE' group.
make_replacement_set(self, other) ==
    IF self.source_type # "FILE" THEN "TypeError"
    ELSE LET Keep(p) == IsReplacement(self.assets[p[1]], other.assets[p[2]])
             kept == SelectSeq(Pairs(Len(self.assets), Len(other.assets)), Keep)
         IN  [i \in DOMAIN kept |->
                 <<self.assets[kept[i][1]].artifact,
                   self.assets[kept[i][1]].sha1,
                   other.assets[kept[i][2]].sha1>>]

\* re.match(matcher, s) for a matcher of the form '.*(l1|l2|...).*', given as
\* the set of its literal alternatives.
Matches(matcher, s) == \E l \in matcher : contains(s, l)

\* '.*(com\.wandisco|org\.eclipse\.jgit).*'
default_filter ==
    { <<"c","o","m",".","w","a","n","d","i","s","c","o">>,
      <<"o","r","g",".","e","c","l","i","p","s","e",".","j","g","i","t">> }

\* asset.artifact or asset.name
ArtifactOrName(asset) ==
    IF Truthy(asset.artifact) THEN asset.artifact ELSE asset.name

filter_assets(self, matcher) ==
    LET Keep(asset) == /\ Truthy(ArtifactOrName(asset))
                       /\ Matches(matcher, ArtifactOrName(asset))
    IN  [self EXCEPT !.assets = SelectSeq(self.assets, Keep)]

assets_missing_shas(self) ==
    LET Missing(asset) == asset.sha1 = None
        kept == SelectSeq(self.assets, Missing)
    IN  [i \in DOMAIN kept |-> kept[i].name]

\* The pairs of assets assets_with_duplicate_shas keeps.
IsDuplicate(asset, other) ==
    asset.artifact # other.artifact /\ asset.sha1 = other.sha1

\* A variant that reports each pair once, in the order of the collection.
assets_with_duplicate_shas_once(self) ==
    LET Keep(p) == /\ p[1] < p[2]
                   /\ IsDuplicate(self.assets[p[1]], self.assets[p[2]])
        kept == SelectSeq(Pairs(Len(self.assets), Len(self.assets)), Keep)
    IN  [i \in DOMAIN kept |->
            <<self.assets[kept[i][1]].name, self.assets[kept[i][2]].name,
              self.assets[kept[i][1]].sha1>>]

assets_with_duplicate_shas(self) ==
    LET Keep(p) == IsDuplicate(self.assets[p[1]], self.assets[p[2]])
        kept == SelectSeq(Pairs(Len(self.assets), Len(self.assets)), Keep)
    IN  [i \in DOMAIN kept |->
            <<self.assets[kept[i][1]].name, self.assets[kept[i][2]].name,
              self.assets[kept[i][1]].sha1>>]

\* What print_validation_summary prints and the count it returns.
print_validation_summary(self) ==
    LET no_shas == assets_missing_shas(self)
        duplicate_shas == assets_with_duplicate_shas(self)
    IN  [no_shas |-> no_shas, duplicate_shas |-> duplicate_shas,
         issues |-> Len(no_shas) + Len(duplicate_shas)]

----------------------------------------------------------------------------
(* replace_shas_in_file: the sed command *)

\* s/old/new/ on one line: the first occurrence of old becomes new.  The
\* digests are taken to hold no character that is special to sed.
SubstituteFirst(c, old, new) ==
    LET i == find(c, old, 1)
    IN  IF i = 0 THEN c
        ELSE SubSeq(c, 1, i - 1) \o new \o SubSeq(c, i + Len(old), Len(c))

\* s/^([^#]*)#(.+new.+)$/\1\2/ on one line: the first "#" goes when new
\* stands after it with a character on each side.
Uncomment(c, new) ==
    LET h == find(c, <<"#">>, 1)
        q == SubSeq(c, h + 1, Len(c))
    IN  IF h > 0 /\ \E j \in 2..Len(q) :
                        OccursAt(q, new, j) /\ j + Len(new) - 1 < Len(q)
        THEN SubSeq(c, 1, h - 1) \o q
        ELSE c

\* The sed expressions on one line of the file; sed keeps the line's "\n".
SedLine(raw, old, new, enable_shas) ==
    LET nl == endswith(raw, <<"\n">>)
        c == IF nl THEN SubSeq(raw, 1, Len(raw) - 1) ELSE raw
        c1 == SubstituteFirst(c, old, new)
        c2 == IF enable_shas THEN Uncomment(c1, new) ELSE c1
    IN  IF nl THEN c2 \o <<"\n">> ELSE c2

\* sed rejects the empty regular expression s//new/: the command fails and
\* the file stays as it is.
SedRejects(old) == old = <<>>

\* sed -E -i on the whole file.
Sed(f, old, new, enable_shas) ==
    IF SedRejects(old) THEN f
    ELSE [i \in DOMAIN f |-> SedLine(f[i], old, new, enable_shas)]

\* The loop of replace_shas_in_file with every command succeeding.
RECURSIVE SedAll(_, _, _)
SedAll(f, replacements, enable_shas) ==
    IF replacements = <<>> THEN f
    ELSE SedAll(Sed(f, Head(replacements)[2], Head(replacements)[3], enable_shas),
                Tail(replacements), enable_shas)

----------------------------------------------------------------------------
(* update_bazel_file *)

\* ' '*n
RECURSIVE Spaces(_)
Spaces(n) == IF n <= 0 THEN <<>> ELSE <<" ">> \o Spaces(n - 1)

\* "{0}".format(v): None prints as the word None.
Format(v) == IF v = None THEN <<"N","o","n","e">> ELSE v

\* re.match(".*:.*\+", v)
HasVariable(v) ==
    \E i \in DOMAIN v : v[i] = ":" /\ \E j \in (i + 1)..Len(v) : v[j] = "+"

\* The state before the first line.  count is Python's zero-based line
\* number; env_line maps a variable to the count of its declaration.
UpdateInit(f, assets_to_update) ==
    [count |-> 0, inside |-> FALSE, current_asset |-> Asset,
     env |-> <<>>, env_line |-> <<>>, data |-> readlines(f),
     updated_assets |-> <<>>, raised |-> FALSE]

\* The repository field as written back: the ":" goes and WANDISCO gets its
\* declared name again.
RepositoryName(new_val) ==
    LET n == replace(new_val, <<":">>, <<>>)
    IN  IF n = L_WANDISCO THEN n \o L_ASSETS ELSE n

\* The variable branch, for an artifact field "...:..." + VARIABLE.
UpdateVariable(u, v, new_asset) ==
    LET env_variable == strip(split(v, "+")[2])
        parts == split(new_asset.artifact, ":")
        line_num == Lookup(u.env_line, env_variable)
        version == parts[3]
        line == u.data[line_num + 1]
        indent_amount == Len(line) - Len(lstrip_spaces(line))
        decl == Spaces(indent_amount) \o env_variable \o <<" ","="," ","\"">>
                    \o version \o <<"\"","\n">>
    IN  IF \/ ~HasKey(u.env_line, env_variable)
           \/ new_asset.artifact = None
           \/ Len(parts) < 3
        THEN [u EXCEPT !.raised = TRUE]
        ELSE IF line_num # 0 /\ Lookup(u.env, env_variable) # version
        THEN [u EXCEPT !.data[line_num + 1] = decl,
                       !.updated_assets = DictSet(@, new_asset.name, new_asset)]
        ELSE u

\* The field branch: the line to write for field k, or a raised exception.
UpdateField(u, original_line, k, v, new_asset) ==
    LET new_val == GetAttr(new_asset, k)
        quoted == Spaces(8) \o k \o <<" ","="," ","\"">> \o Format(new_val)
                      \o <<"\"",",","\n">>
    IN  IF ~HasAttr(k) \/ v = new_val
        THEN [u EXCEPT !.data[u.count + 1] = original_line]
        ELSE IF k = L_sha1 /\ new_asset.artifact = None
        THEN [u EXCEPT !.raised = TRUE]
        ELSE IF k = L_sha1 /\ contains(new_asset.artifact, L_SNAPSHOT)
        THEN IF new_val = None
             THEN [u EXCEPT !.raised = TRUE]
             ELSE [u EXCEPT !.data[u.count + 1] =
                       Spaces(4) \o <<"#">> \o k \o <<" ","="," ","\"">>
                           \o new_val \o <<"\"",",","\n">>]
        ELSE IF k = L_repository
        THEN IF new_val = None
             THEN [u EXCEPT !.raised = TRUE]
             ELSE [u EXCEPT !.data[u.count + 1] =
                       Spaces(8) \o k \o <<" ","="," ">>
                           \o RepositoryName(new_val) \o <<",","\n">>]
        ELSE IF k = L_artifact
        THEN [u EXCEPT !.data[u.count + 1] = quoted,
                       !.updated_assets = DictSet(@, new_asset.name, new_asset)]
        ELSE [u EXCEPT !.data[u.count + 1] = quoted]

\* The body of the loop over the lines, for the line at u.count.
UpdateLine(u, assets_to_update) ==
    LET original_line == u.data[u.count + 1]
        line == strip(original_line)
        kv == parse_property(line)
        cur == SetItem(u.current_asset, kv.k, kv.v)
        new_asset == Lookup(assets_to_update, cur.name)
        u1 == [u EXCEPT !.current_asset = cur]
        u2 == IF IsRecordOpen(line)
              THEN [u EXCEPT !.inside = TRUE, !.current_asset = Asset]
              ELSE IF u.inside /\ IsRecordClose(line)
              THEN [u EXCEPT !.inside = FALSE, !.current_asset = Asset]
              ELSE IF ~IsAssignment(line) THEN u
              ELSE IF ~u.inside
              THEN [u EXCEPT !.env = DictSet(@, kv.k, kv.v),
                             !.env_line = DictSet(@, kv.k, u.count)]
              ELSE IF ~HasKey(assets_to_update, cur.name) THEN u1
              ELSE IF kv.k = L_artifact /\ HasVariable(kv.v)
              THEN UpdateVariable(u1, kv.v, new_asset)
              ELSE UpdateField(u1, original_line, kv.k, kv.v, new_asset)
    IN  [u2 EXCEPT !.count = u.count + 1]

\* The loop; an exception ends it.
RECURSIVE UpdateLines(_, _)
UpdateLines(u, assets_to_update) ==
    IF u.raised \/ u.count >= Len(u.data) THEN u
    ELSE UpdateLines(UpdateLine(u, assets_to_update), assets_to_update)

\* update_bazel_file: the file it leaves, the dict it returns, and whether
\* it raised (the file is written only after the loop).
update_bazel_file(f, assets_to_update) ==
    LET u == UpdateLines(UpdateInit(f, assets_to_update), assets_to_update)
    IN  [file |-> IF u.raised THEN f ELSE writelines(u.data),
         updated_assets |-> u.updated_assets,
         raised |-> u.raised]

----------------------------------------------------------------------------
(* Idle values of the variables a specification does not use *)

NoArgs ==
    [check |-> FALSE, update_version |-> FALSE, snapshot_check |-> FALSE,
     patch |-> FALSE, enable |-> FALSE, jar_store |-> None, filter |-> {}]

NoGroup == AssetGroup("FILE", <<>>, <<>>)

NoOut == [op |-> "none"]

NoEffects == [writes |-> 0, lookups |-> 0, tmp_files |-> 0]

----------------------------------------------------------------------------
(* SpecGroup: the reports of one asset collection *)

MaxAssets == 2

\* The collections enumerated: records over two names, two coordinates and
\* two digests, each of them possibly absent.
GroupNames == {None, <<"x">>, <<"y">>}

GroupArtifacts == {None, <<"g",":","p",":","1">>, <<"g",":","q",":","1">>}

GroupShas == {None, <<"a","a">>, <<"b","b">>}

GroupAssets ==
    {[Asset EXCEPT !.name = n, !.artifact = a, !.sha1 = d] :
        n \in GroupNames \ {None}, a \in GroupArtifacts, d \in GroupShas}

RefAssets ==
    {[Asset EXCEPT !.artifact = a, !.sha1 = d] :
        a \in GroupArtifacts, d \in GroupShas}

SeqsUpTo(S, n) == UNION {[1..k -> S] : k \in 0..n}

GroupInit ==
    /\ pc = "group"
    /\ args = NoArgs
    /\ file = <<>>
    /\ file0 = <<>>
    /\ scan = ScanInit
    /\ \E t \in {"FILE", "DIR", "REPO"}, assets \in SeqsUpTo(GroupAssets, MaxAssets) :
           groupA = AssetGroup(t, assets, <<>>)
    /\ groupB = NoGroup
    /\ todo = <<>>
    /\ out = NoOut
    /\ effects = NoEffects

GroupMakeReplacementSet ==
    /\ pc = "group"
    /\ \E assets \in SeqsUpTo(RefAssets, MaxAssets - 1) :
           /\ groupB' = AssetGroup("REPO", assets, <<>>)
           /\ out' = [op |-> "make_replacement_set",
                      result |-> make_replacement_set(groupA, groupB')]
    /\ pc' = "reported"
    /\ UNCHANGED <<args, file, file0, scan, groupA, todo, effects>>

GroupMissingShas ==
    /\ pc = "group"
    /\ out' = [op |-> "assets_missing_shas", result |-> assets_missing_shas(groupA)]
    /\ pc' = "reported"
    /\ UNCHANGED <<args, file, file0, scan, groupA, groupB, todo, effects>>

GroupDuplicateShas ==
    /\ pc = "group"
    /\ out' = [op |-> "assets_with_duplicate_shas",
               result |-> assets_with_duplicate_shas(groupA)]
    /\ pc' = "reported"
    /\ UNCHANGED <<args, file, file0, scan, groupA, groupB, todo, effects>>

GroupValidationSummary ==
    /\ pc = "group"
    /\ out' = [op |-> "print_validation_summary",
               result |-> print_validation_summary(groupA)]
    /\ pc' = "reported"
    /\ UNCHANGED <<args, file, file0, scan, groupA, groupB, todo, effects>>

GroupNext ==
    \/ GroupMakeReplacementSet
    \/ GroupMissingShas
    \/ GroupDuplicateShas
    \/ GroupValidationSummary

SpecGroup == GroupInit /\ [][GroupNext]_vars

----------------------------------------------------------------------------
(* Claims on the reports of a collection (SpecGroup) *)

Reported(op) == pc = "reported" /\ out.op = op

\* The pairs (manifest record i, reference record j) with equal coordinates
\* and two present, unequal digests.
DifferingPairs ==
    {p \in (DOMAIN groupA.assets) \X (DOMAIN groupB.assets) :
        /\ groupA.assets[p[1]].artifact = groupB.assets[p[2]].artifact
        /\ groupA.assets[p[1]].sha1 # None
        /\ groupB.assets[p[2]].sha1 # None
        /\ groupA.assets[p[1]].sha1 # groupB.assets[p[2]].sha1}

TupleOf(p) ==
    <<groupA.assets[p[1]].artifact, groupA.assets[p[1]].sha1,
      groupB.assets[p[2]].sha1>>

\* C1: on a FILE collection make_replacement_set returns one tuple
\* (coordinate, manifest digest, reference digest) for each pair of a
\* manifest record and a reference record with equal coordinates and two
\* present, unequal digests, and no other tuple; no tuple holds an absent
\* digest.
C1_ReplacementSet ==
    (Reported("make_replacement_set") /\ groupA.source_type = "FILE") =>
        /\ Len(out.result) = Cardinality(DifferingPairs)
        /\ \A p \in DifferingPairs : TupleOf(p) \in Range(out.result)
        /\ \A t \in Range(out.result) : \E p \in DifferingPairs : t = TupleOf(p)
        /\ \A t \in Range(out.result) : t[2] # None /\ t[3] # None

\* C1 witness: a run that returned a tuple for one pair and none for a pair
\* of equal coordinates in which a digest is absent.
C1_Witness ==
    /\ Reported("make_replacement_set")
    /\ groupA.source_type = "FILE"
    /\ DifferingPairs # {}
    /\ \E i \in DOMAIN groupA.assets, j \in DOMAIN groupB.assets :
           /\ groupA.assets[i].artifact = groupB.assets[j].artifact
           /\ groupA.assets[i].sha1 = None
           /\ groupB.assets[j].sha1 # None

\* The ordered pairs of records with distinct coordinates and the same
\* present digest.
DuplicatePairs ==
    {p \in (DOMAIN groupA.assets) \X (DOMAIN groupA.assets) :
        /\ groupA.assets[p[1]].artifact # groupA.assets[p[2]].artifact
        /\ groupA.assets[p[1]].sha1 # None
        /\ groupA.assets[p[1]].sha1 = groupA.assets[p[2]].sha1}

\* C4: assets_with_duplicate_shas reports every two records with distinct
\* coordinates and the same present digest, and with a pair (x, y) it
\* reports (y, x).
C4_DuplicatesSymmetric ==
    Reported("assets_with_duplicate_shas") =>
        /\ \A p \in DuplicatePairs :
               <<groupA.assets[p[1]].name, groupA.assets[p[2]].name,
                 groupA.assets[p[1]].sha1>> \in Range(out.result)
        /\ \A t \in Range(out.result) : <<t[2], t[1], t[3]>> \in Range(out.result)

\* C4 witness: a report with two records of different names that share a
\* present digest.
C4_Witness ==
    /\ Reported("assets_with_duplicate_shas")
    /\ \E p \in DuplicatePairs :
           groupA.assets[p[1]].name # groupA.assets[p[2]].name

\* C5: assets_with_duplicate_shas never reports a pair whose digest is
\* absent.
C5_NoAbsentDuplicate ==
    Reported("assets_with_duplicate_shas") =>
        \A t \in Range(out.result) : t[3] # None

\* C6: print_validation_summary returns the number of records with an
\* absent digest plus the number of unordered pairs of records with
\* distinct coordinates and the same present digest.
C6_IssueCount ==
    Reported("print_validation_summary") =>
        out.result.issues =
            Cardinality({i \in DOMAIN groupA.assets : groupA.assets[i].sha1 = None})
            + Cardinality({p \in DuplicatePairs : p[1] < p[2]})

----------------------------------------------------------------------------
(* SpecParse: assets_from_bazel_file on manifests with variables *)

MaxDecls == 3

\* The text of a manifest line.
Quoted(v) == <<"\"">> \o v \o <<"\"">>

Decl(name, rhs) == name \o <<" ","="," ">> \o rhs \o <<"\n">>

Field(k, rhs) == <<" "," ">> \o k \o <<" ","="," ">> \o rhs \o <<",","\n">>

N_VERSION == <<"V","E","R","S","I","O","N">>
N_B == <<"B">>
N_C == <<"C">>
N_REPO == <<"R","E","P","O">>
N_lib == <<"l","i","b">>
X_version == <<"1",".","2",".","3">>
X_z == <<"z">>
X_prefix == <<"c","o","m",".","x",":","l","i","b",":">>
X_aa == <<"a","a">>
X_bb == <<"b","b">>
X_cc == <<"c","c">>

\* The declarations a manifest may hold: VERSION = "1.2.3", the chain
\* B = VERSION and C = B, a repository alias REPO = GERRIT, and lib = "z",
\* whose name stands inside the coordinate prefix.
DeclPool ==
    { Decl(N_VERSION, Quoted(X_version)), Decl(N_B, N_VERSION), Decl(N_C, N_B),
      Decl(N_REPO, L_GERRIT), Decl(N_lib, Quoted(X_z)) }

\* The line artifact = "com.x:lib:" + V, of a record.
ArtifactLine(v) == Field(L_artifact, Quoted(X_prefix) \o L_plus \o v)

\* A record block; repo is the right-hand side of its repository field,
\* or None for a record without one.
RecordBlock(v, repo) ==
    << L_maven_jar \o <<"\n">>, Field(L_name, Quoted(N_lib)), ArtifactLine(v) >>
    \o (IF repo = None THEN <<>> ELSE << Field(L_repository, repo) >>)
    \o << Field(L_sha1, Quoted(X_aa)), L_close \o <<"\n">> >>

InjectiveSeqs(S, n) ==
    {q \in SeqsUpTo(S, n) : \A i, j \in DOMAIN q : i # j => q[i] # q[j]}

\* The manifests enumerated: up to MaxDecls distinct declarations in any
\* order, and one record that stands before, between or after them.
ParseManifests ==
    { SubSeq(d, 1, at) \o RecordBlock(v, repo) \o SubSeq(d, at + 1, Len(d)) :
        <<d, at, v, repo>> \in
            { t \in InjectiveSeqs(DeclPool, MaxDecls) \X (0..MaxDecls)
                    \X {N_VERSION, N_B, N_C} \X {None, N_REPO, L_MAVEN_CENTRAL} :
                t[2] <= Len(t[1]) } }

ParseInit ==
    /\ pc = "scan"
    /\ args = NoArgs
    /\ file \in ParseManifests
    /\ file0 = file
    /\ scan = ScanInit
    /\ groupA = NoGroup
    /\ groupB = NoGroup
    /\ todo = <<>>
    /\ out = NoOut
    /\ effects = NoEffects

\* One turn of the loop "for line in file_in".
ParseLine ==
    /\ pc = "scan"
    /\ scan.i <= Len(file)
    /\ scan' = ScanLine(scan, readlines(file)[scan.i])
    /\ UNCHANGED <<pc, args, file, file0, groupA, groupB, todo, out, effects>>

\* "Resolve Variables in environment", after the last line.
ParseResolveEnv ==
    /\ pc = "scan"
    /\ scan.i > Len(file)
    /\ groupA' = AssetGroup("FILE", <<>>, ResolveEnv(scan.env))
    /\ pc' = "resolve"
    /\ UNCHANGED <<args, file, file0, scan, groupB, todo, out, effects>>

\* The substitution into the assets, and the return of the group.
ParseResolveAssets ==
    /\ pc = "resolve"
    /\ groupA' = [groupA EXCEPT !.assets = ResolveAssets(scan.assets, groupA.env)]
    /\ pc' = "parsed"
    /\ UNCHANGED <<args, file, file0, scan, groupB, todo, out, effects>>

ParseNext == ParseLine \/ ParseResolveEnv \/ ParseResolveAssets

SpecParse == ParseInit /\ [][ParseNext]_vars

\* The steps of SpecParse compute what assets_from_bazel_file returns.
ParseStepsAgree == pc = "parsed" => groupA = assets_from_bazel_file(file)

----------------------------------------------------------------------------
(* Claims on variable resolution (SpecParse) *)

\* The names the manifest declares.
DeclaredNames == {scan.env[i].k : i \in DOMAIN scan.env}

\* C7: after assets_from_bazel_file has resolved the variables, no declared
\* name is a substring of a record's coordinate or origin, in whatever order
\* the declarations of a chain stand.
C7_NoDeclaredNameLeft ==
    pc = "parsed" =>
        \A i \in DOMAIN groupA.assets : \A k \in DeclaredNames :
            /\ groupA.assets[i].artifact # None =>
                   ~contains(groupA.assets[i].artifact, k)
            /\ groupA.assets[i].repository # None =>
                   ~contains(groupA.assets[i].repository, k)

\* C8: the environment pass changes no value of an environment it has
\* produced.
C8_ResolveIdempotent ==
    pc \in {"resolve", "parsed"} => ResolveEnv(groupA.env) = groupA.env

\* A manifest that declares V = "x" and holds the record whose artifact
\* field is "com.x:lib:" + V.
DeclaresAndUses(v, x) ==
    /\ Decl(v, Quoted(x)) \in Range(file)
    /\ ArtifactLine(v) \in Range(file)

LiteralValues == {X_version, X_z}

OnlyReference(v, x) ==
    /\ \A k \in DeclaredNames : ~contains(X_prefix \o x, k)
    /\ \A k \in DeclaredNames \ {v} : ~contains(X_prefix \o v, k)
    /\ find(X_prefix \o v, v, 1) = Len(X_prefix) + 1

----------------------------------------------------------------------------
(* SpecPatch: the two patch writers on a manifest of records *)

MaxRecords == 2

\* The names of the records, by position.
RecordNames ==
    << <<"a">>, <<"b">>, <<"c">>, <<"d">>, <<"e">>, <<"f">>, <<"h">>, <<"i">>,
       <<"j">>, <<"k">>, <<"l">>, <<"m">>, <<"n">>, <<"o">>, <<"p">>, <<"q">>,
       <<"r">>, <<"s">>, <<"t">>, <<"u">> >>

\* The coordinate g:<name>:1 of the record at a position.
CoordinateOf(r) == <<"g", ":">> \o RecordNames[r] \o <<":", "1">>

\* The sha1 line of a record: none, active or commented out.
ShaLines ==
    { <<>>, << Field(L_sha1, Quoted(X_aa)) >>, << Field(L_sha1, Quoted(X_bb)) >>,
      << <<" "," ","#">> \o Tail(Tail(Field(L_sha1, Quoted(X_aa)))) >> }

PatchRecord(r, sha) ==
    << L_maven_jar \o <<"\n">>, Field(L_name, Quoted(RecordNames[r])),
       Field(L_artifact, Quoted(CoordinateOf(r))) >>
    \o sha \o << L_close \o <<"\n">> >>

\* The line with its "\n" replaced by the terminator eol.
WithEol(line, eol) == SubSeq(line, 1, Len(line) - 1) \o eol

RECURSIVE PatchFiles(_)
PatchFiles(n) ==
    IF n = 0 THEN {<<>>}
    ELSE { f \o PatchRecord(n, sha) : f \in PatchFiles(n - 1), sha \in ShaLines }

\* The manifests enumerated: one to MaxRecords records, every line ending
\* in "\n" or every line ending in "\r\n".
PatchManifests ==
    { [i \in DOMAIN f |-> WithEol(f[i], eol)] :
        f \in UNION {PatchFiles(n) : n \in 1..MaxRecords},
        eol \in {<<"\n">>, <<"\r", "\n">>} }

\* The reference collections enumerated: up to two records, each with the
\* coordinate of a manifest record and any digest or none.
PatchRefAssets ==
    {[Asset EXCEPT !.artifact = CoordinateOf(r), !.sha1 = d] :
        r \in 1..MaxRecords, d \in {None, X_aa, X_bb, X_cc}}

PatchRefs == SeqsUpTo(PatchRefAssets, 2)

\* The dicts update_bazel_file is given: the empty one, or one record of the
\* manifest with another digest.
UpdateMaps(group) ==
    {<<>>} \cup
    { <<[k |-> group.assets[i].name, v |-> [group.assets[i] EXCEPT !.sha1 = d]]>> :
        i \in DOMAIN group.assets, d \in {X_bb, X_cc} }

PatchInit ==
    /\ pc = "start"
    /\ \E e \in BOOLEAN : args = [NoArgs EXCEPT !.patch = TRUE, !.enable = e]
    /\ file \in PatchManifests
    /\ file0 = file
    /\ scan = ScanInit
    /\ groupA = NoGroup
    /\ groupB = NoGroup
    /\ todo = <<>>
    /\ out = NoOut
    /\ effects = NoEffects

PatchParse ==
    /\ pc = "start"
    /\ groupA' = assets_from_bazel_file(file)
    /\ pc' = "ready"
    /\ UNCHANGED <<args, file, file0, scan, groupB, todo, out, effects>>

\* replace_shas_in_file up to its loop: the replacement set is made once.
ReplaceShasStart ==
    /\ pc = "ready"
    /\ \E assets \in PatchRefs : groupB' = AssetGroup("REPO", assets, <<>>)
    /\ todo' = make_replacement_set(groupA, groupB')
    /\ out' = [op |-> "replace_shas_in_file", failed |-> 0]
    /\ pc' = "sed"
    /\ UNCHANGED <<args, file, file0, scan, groupA, effects>>

\* One turn of the loop whose sed command succeeds.
SedSucceeds ==
    /\ pc = "sed"
    /\ todo # <<>>
    /\ ~SedRejects(Head(todo)[2])
    /\ file' = Sed(file, Head(todo)[2], Head(todo)[3], args.enable)
    /\ todo' = Tail(todo)
    /\ effects' = [effects EXCEPT !.writes = @ + 1]
    /\ UNCHANGED <<pc, args, file0, scan, groupA, groupB, out>>

\* One turn of the loop whose sed command fails: the exception is printed
\* and the loop goes on.
SedFails ==
    /\ pc = "sed"
    /\ todo # <<>>
    /\ todo' = Tail(todo)
    /\ out' = [out EXCEPT !.failed = @ + 1]
    /\ UNCHANGED <<pc, args, file, file0, scan, groupA, groupB, effects>>

ReplaceShasDone ==
    /\ pc = "sed"
    /\ todo = <<>>
    /\ pc' = "patched"
    /\ UNCHANGED <<args, file, file0, scan, groupA, groupB, todo, out, effects>>

UpdateBazelFile ==
    /\ pc = "ready"
    /\ \E assets_to_update \in UpdateMaps(groupA) :
        LET r == update_bazel_file(file, assets_to_update)
        IN  /\ file' = r.file
            /\ out' = [op |-> "update_bazel_file",
                       assets_to_update |-> assets_to_update,
                       updated_assets |-> r.updated_assets,
                       raised |-> r.raised]
            /\ effects' = IF r.raised THEN effects
                          ELSE [effects EXCEPT !.writes = @ + 1]
    /\ pc' = "updated"
    /\ UNCHANGED <<args, file0, scan, groupA, groupB, todo>>

\* update_bazel_file when the write of lines 455-456 fails part-way:
\* open(filename, 'w') has emptied the file and writelines has written the
\* first n lines when the I/O error is raised.
UpdateBazelFileInterrupted ==
    /\ pc = "ready"
    /\ \E assets_to_update \in UpdateMaps(groupA) :
        \E r \in {update_bazel_file(file, assets_to_update)} :
            /\ ~r.raised
            /\ \E n \in 0..(Len(r.file) - 1) : file' = SubSeq(r.file, 1, n)
            /\ out' = [op |-> "update_bazel_file",
                       assets_to_update |-> assets_to_update,
                       updated_assets |-> <<>>,
                       raised |-> TRUE]
    /\ effects' = [effects EXCEPT !.writes = @ + 1]
    /\ pc' = "updated"
    /\ UNCHANGED <<args, file0, scan, groupA, groupB, todo>>

PatchNext ==
    \/ PatchParse
    \/ ReplaceShasStart
    \/ SedSucceeds
    \/ SedFails
    \/ ReplaceShasDone
    \/ UpdateBazelFile
    \/ UpdateBazelFileInterrupted

SpecPatch == PatchInit /\ [][PatchNext]_vars

----------------------------------------------------------------------------
(* Claims on the patch writers (SpecPatch) *)

\* C2: when the replacement set is empty, replace_shas_in_file leaves the
\* manifest file byte-identical, and so does update_bazel_file when the
\* dict of assets to update is empty.
C2_RoundTrip ==
    /\ (pc = "patched" /\ make_replacement_set(groupA, groupB) = <<>>) =>
           file = file0
    /\ (pc = "updated" /\ ~out.raised /\ out.assets_to_update = <<>>) =>
           file = file0

\* The position in the manifest collection of the record that line i of
\* the manifest belongs to: the number of record-open markers down to it.
RecordAt(f, i) ==
    Cardinality({j \in 1..i : IsRecordOpen(strip(UniversalNewline(f[j])))})

\* Line i of the manifest is the sha1 field, active or commented out, of
\* the record with coordinate c.
IsShaLineOf(f, i, c) ==
    /\ IsAssignment(strip(UniversalNewline(f[i])))
    /\ parse_property(strip(UniversalNewline(f[i]))).k = L_sha1
    /\ RecordAt(f, i) \in DOMAIN groupA.assets
    /\ groupA.assets[RecordAt(f, i)].artifact = c

\* C3: when replace_shas_in_file has applied one replacement (c, old, new),
\* the sha1 line of the record with coordinate c carries new and every
\* other line of the file is as it was.
C3_OnlyDigestLine ==
    (/\ pc = "patched"
     /\ out.failed = 0
     /\ Len(make_replacement_set(groupA, groupB)) = 1) =>
        LET t == make_replacement_set(groupA, groupB)[1]
        IN  \A i \in DOMAIN file0 :
                IF IsShaLineOf(file0, i, t[1])
                THEN contains(file[i], Quoted(t[3]))
                ELSE file[i] = file0[i]

\* C12: patching a manifest is all-or-nothing per file: when
\* update_bazel_file or replace_shas_in_file has ended, with or without a
\* failure of the write or of a patch command, the file on disk is its
\* original content or its completely patched content.
C12_AllOrNothing ==
    /\ pc = "updated" =>
           \/ file = file0
           \/ file = update_bazel_file(file0, out.assets_to_update).file
    /\ pc = "patched" =>
           \/ file = file0
           \/ file = SedAll(file0, make_replacement_set(groupA, groupB),
                            args.enable)

----------------------------------------------------------------------------
(* The collaborators of main: repository lookups, the bom, the reports *)

L_jgit == <<"o","r","g",".","e","c","l","i","p","s","e",".","j","g","i","t">>
L_dot_version == <<".","v","e","r","s","i","o","n">>
L_dash_snapshot == <<"-","s","n","a","p","s","h","o","t">>

ascii_uppercase ==
    <<"A","B","C","D","E","F","G","H","I","J","K","L","M",
      "N","O","P","Q","R","S","T","U","V","W","X","Y","Z">>

ascii_lowercase ==
    <<"a","b","c","d","e","f","g","h","i","j","k","l","m",
      "n","o","p","q","r","s","t","u","v","w","x","y","z">>

\* str.lower()
lower(s) ==
    [i \in DOMAIN s |->
        IF \E j \in DOMAIN ascii_uppercase : ascii_uppercase[j] = s[i]
        THEN ascii_lowercase[CHOOSE j \in DOMAIN ascii_uppercase :
                                 ascii_uppercase[j] = s[i]]
        ELSE s[i]]

\* The exit status of the process is the low byte of the code given to exit.
ExitStatusModulus == 256

\* exit(code)
exit(code) == [op |-> "exit", code |-> code, status |-> code % ExitStatusModulus]

\* An exception nothing catches: the traceback is printed, the status is 1.
Traceback(exc) == [op |-> "raise", exc |-> exc, status |-> 1]

\* asset_from_repo for one outcome of tools/download_file.py.  "ok": the
\* command exits 0, the copy keeps its digest and lines 695-696 remove the
\* temporary file.  "failed", "failed_with_file": the command exits non-zero,
\* without or with the file of its -o option on disk, and splitting its
\* output (bytes) by the str '\n' raises TypeError in the handler, before
\* lines 695-696.  A coordinate that is absent or has not three parts raises
\* before the command runs.  tmp_file: the temporary file is left on disk.
asset_from_repo(asset, repo_name, outcome) ==
    LET repo == IF Truthy(repo_name) THEN repo_name ELSE L_MAVEN_CENTRAL \o <<":">>
    IN  IF asset.artifact = None
        THEN [asset |-> asset, repo |-> repo, invoked |-> FALSE,
              raised |-> "AttributeError", tmp_file |-> FALSE]
        ELSE IF Len(split(asset.artifact, ":")) # 3
        THEN [asset |-> asset, repo |-> repo, invoked |-> FALSE,
              raised |-> "ValueError", tmp_file |-> FALSE]
        ELSE IF outcome = "ok"
        THEN [asset |-> asset, repo |-> repo, invoked |-> TRUE, raised |-> "no",
              tmp_file |-> FALSE]
        ELSE [asset |-> asset, repo |-> repo, invoked |-> TRUE,
              raised |-> "TypeError", tmp_file |-> outcome = "failed_with_file"]

\* The outcome of the lookup that follows n lookups, when the lookup k.at of
\* the run is the one that fails (k.at = 0: none fails), with the temporary
\* file written (k.file) or not.
OutcomeAfter(n, k) ==
    IF n + 1 # k.at THEN "ok"
    ELSE IF k.file THEN "failed_with_file" ELSE "failed"

\* The loop "for asset in reference_assets: assets.append(asset_from_repo(...))".
RECURSIVE LookupEach(_, _, _, _)
LookupEach(acc, reference_assets, repo_names, k) ==
    IF acc.raised # "no" \/ reference_assets = <<>> THEN acc
    ELSE LET r == asset_from_repo(Head(reference_assets), Head(repo_names),
                                  OutcomeAfter(acc.lookups, k))
         IN  LookupEach(
                 [assets |-> IF r.raised = "no" THEN Append(acc.assets, r.asset)
                             ELSE acc.assets,
                  lookups |-> acc.lookups + (IF r.invoked THEN 1 ELSE 0),
                  tmp_files |-> acc.tmp_files + (IF r.tmp_file THEN 1 ELSE 0),
                  raised |-> r.raised],
                 Tail(reference_assets), Tail(repo_names), k)

\* The group a loader returns, with the lookups it made and what it raised.
Loaded(source_type, acc) ==
    [group |-> AssetGroup(source_type, acc.assets, <<>>),
     lookups |-> acc.lookups, tmp_files |-> acc.tmp_files,
     raised |-> acc.raised]

NoLookups == [assets |-> <<>>, lookups |-> 0, tmp_files |-> 0, raised |-> "no"]

assets_from_default_repository(reference_assets, k) ==
    LET Named(asset) == Truthy(asset.repository)
        named == SelectSeq(reference_assets, Named)
    IN  Loaded("REPO", LookupEach(NoLookups, named,
                                  [i \in DOMAIN named |-> named[i].repository], k))

assets_from_repository(repo_name, reference_assets, k) ==
    IF ~endswith(repo_name, <<":">>) /\ ~HasKey(known_repos, repo_name)
    THEN Loaded("REPO", [NoLookups EXCEPT !.raised = "ValueError"])
    ELSE LET resolved == IF endswith(repo_name, <<":">>) THEN repo_name
                         ELSE Lookup(known_repos, repo_name)
         IN  Loaded("REPO", LookupEach(NoLookups, reference_assets,
                                       [i \in DOMAIN reference_assets |-> resolved], k))

\* assets_from_directory_walk, given the assets asset_from_jar makes of the
\* jars found.
assets_from_directory_walk(jars) ==
    Loaded("DIR", [NoLookups EXCEPT !.assets = jars])

\* read_bom_properties once the properties file is there: the keys that
\* match the filter.
read_bom_properties(table, matcher) ==
    LET Keep(p) == Matches(matcher, p.k)
    IN  SelectSeq(table, Keep)

\* The loop of process_assets over one group.
RECURSIVE ProcessEach(_, _, _, _)
ProcessEach(acc, assets, properties, k) ==
    IF acc.raised # "no" \/ assets = <<>> THEN acc
    ELSE LET asset == Head(assets)
             artifact_split == split(asset.artifact, ":")
             group_id == artifact_split[1]
             artifact_id == artifact_split[2]
             version == artifact_split[3]
             property_key ==
                 (IF artifact_id = L_jgit THEN artifact_id
                  ELSE group_id \o <<".">> \o artifact_id) \o L_dot_version
             property_version == Lookup(properties, property_key)
             new_asset ==
                 [asset EXCEPT
                     !.artifact = group_id \o <<":">> \o artifact_id \o <<":">>
                                      \o property_version,
                     !.old_version = version]
             r == asset_from_repo(new_asset, new_asset.repository,
                                  OutcomeAfter(acc.lookups, k))
             key == IF artifact_id = L_jgit THEN artifact_id ELSE r.asset.name
         IN  IF asset.artifact = None
             THEN [acc EXCEPT !.raised = "AttributeError"]
             ELSE IF Len(artifact_split) < 3
             THEN [acc EXCEPT !.raised = "IndexError"]
             ELSE IF ~HasKey(properties, property_key)
             THEN ProcessEach(acc, Tail(assets), properties, k)
             ELSE IF version = property_version
             THEN ProcessEach(
                      [acc EXCEPT !.skipped_assets = DictSet(@, asset.name, asset)],
                      Tail(assets), properties, k)
             ELSE IF r.raised # "no"
             THEN [acc EXCEPT !.raised = r.raised,
                              !.lookups = @ + (IF r.invoked THEN 1 ELSE 0),
                              !.tmp_files = @ + (IF r.tmp_file THEN 1 ELSE 0)]
             ELSE ProcessEach(
                      [acc EXCEPT !.assets_to_update = DictSet(@, key, r.asset),
                                  !.lookups = @ + 1],
                      Tail(assets), properties, k)

process_assets(properties, group, k) ==
    ProcessEach([assets_to_update |-> <<>>, skipped_assets |-> <<>>,
                 lookups |-> 0, tmp_files |-> 0, raised |-> "no"],
                group.assets, properties, k)

Keys(d) == {d[i].k : i \in DOMAIN d}

\* print_dependency_management_report: the code it exits with, 0 when it
\* returns.
print_dependency_management_report(updated_assets, assets_to_update, skipped_assets, checking_only) ==
    LET not_updated_assets ==
            IF updated_assets # <<>>
            THEN Keys(assets_to_update) \ Keys(updated_assets)
            ELSE Keys(assets_to_update)
    IN  IF checking_only /\ Len(assets_to_update) > 0 THEN 1
        ELSE IF ~checking_only /\ not_updated_assets # {} THEN 1
        ELSE 0

\* check_for_snapshot_assets: the count, or the exception of a record
\* without a coordinate.
check_for_snapshot_assets(group) ==
    LET Snapshot(asset) == contains(lower(asset.artifact), L_dash_snapshot)
    IN  IF \E i \in DOMAIN group.assets : group.assets[i].artifact = None
        THEN [raised |-> "AttributeError", num_of_snapshots |-> 0]
        ELSE [raised |-> "no",
              num_of_snapshots |-> Len(SelectSeq(group.assets, Snapshot))]

----------------------------------------------------------------------------
(* SpecMain: one run of main, from the command line to the exit status *)

\* The number of records of the large manifest.
ManyRecords == 16

\* --filter '.*(g).*'
X_filter == { <<"g">> }

\* args.filter or default_filter; {} stands for no --filter option.
asset_filter(a) == IF a.filter = {} THEN default_filter ELSE a.filter

\* --jar_store: another manifest, a directory of jars, a known repository
\* name, a repository prefix, a name that is none of these.
P_other == <<"o","t","h","e","r">>
P_jars == <<"j","a","r","s">>
P_prefix == <<"X",":">>
P_unknown == <<"N","O","P","E">>

JarStores == {None, P_other, P_jars, L_GERRIT, P_prefix, P_unknown}

\* path.isfile and path.isdir on the --jar_store value.
isfile(p) == p = P_other

isdir(p) == p = P_jars

MainArgs ==
    [check : BOOLEAN, update_version : BOOLEAN, snapshot_check : BOOLEAN,
     patch : BOOLEAN, enable : BOOLEAN, jar_store : JarStores,
     filter : {{}, X_filter}]

\* A manifest of n records with distinct coordinates, no name and no sha1
\* field.
RECURSIVE DigestlessManifest(_)
DigestlessManifest(n) ==
    IF n = 0 THEN <<>>
    ELSE DigestlessManifest(n - 1)
             \o << L_maven_jar \o <<"\n">>,
                   Field(L_artifact, Quoted(CoordinateOf(n))),
                   L_close \o <<"\n">> >>

\* One record of a snapshot build that names its repository.
SnapshotManifest ==
    << L_maven_jar \o <<"\n">>, Field(L_name, Quoted(RecordNames[1])),
       Field(L_artifact, Quoted(CoordinateOf(1) \o <<"-">> \o L_SNAPSHOT)),
       Field(L_repository, L_GERRIT),
       Field(L_sha1, Quoted(X_aa)), L_close \o <<"\n">> >>

\* The manifests of MaxRecords records, each with the digest aa or without
\* a sha1 field.
RECURSIVE MainFiles(_)
MainFiles(n) ==
    IF n = 0 THEN {<<>>}
    ELSE { f \o PatchRecord(n, sha) :
             f \in MainFiles(n - 1),
             sha \in { <<>>, << Field(L_sha1, Quoted(X_aa)) >> } }

\* A record that the filter keeps and the lookups cannot read, followed by a
\* well-formed record: the first has no artifact field and a name that
\* matches the filter, or a coordinate of two parts.
BrokenRecords ==
    { << L_maven_jar \o <<"\n">>, Field(L_name, Quoted(<<"g">>)),
         L_close \o <<"\n">> >>,
      << L_maven_jar \o <<"\n">>, Field(L_name, Quoted(RecordNames[1])),
         Field(L_artifact, Quoted(<<"g", ":", "a">>)), L_close \o <<"\n">> >> }

BrokenManifests == { b \o PatchRecord(2, <<>>) : b \in BrokenRecords }

\* Two records with one coordinate and two digests.
SharedCoordinateManifest ==
    << L_maven_jar \o <<"\n">>, Field(L_name, Quoted(RecordNames[1])),
       Field(L_artifact, Quoted(CoordinateOf(1))),
       Field(L_sha1, Quoted(X_aa)), L_close \o <<"\n">>,
       L_maven_jar \o <<"\n">>, Field(L_name, Quoted(RecordNames[2])),
       Field(L_artifact, Quoted(CoordinateOf(1))),
       Field(L_sha1, Quoted(X_bb)), L_close \o <<"\n">> >>

\* The manifests of a run; None stands for no WORKSPACE file in the
\* current directory.
MainManifests ==
    MainFiles(MaxRecords) \cup BrokenManifests
        \cup {DigestlessManifest(ManyRecords), SnapshotManifest,
              SharedCoordinateManifest, None}

\* Which lookup of the run fails: none (at = 0), or one of the first
\* MaxRecords, with the temporary file written by then or not.
FailingLookups(group) ==
    {k \in [at : 0..MaxRecords, file : BOOLEAN] :
        k.at <= Len(group.assets) /\ (k.file => k.at > 0)}

\* The manifest that --jar_store names, when it names a file.
JarStoreFiles == PatchFiles(1)

\* The assets asset_from_jar makes of the jars of a directory: the digest is
\* always there, the coordinate only when the jar's manifest gives it.
JarAssets ==
    {[Asset EXCEPT !.name = RecordNames[r], !.artifact = c, !.sha1 = d] :
        r \in 1..MaxRecords, c \in {None, CoordinateOf(1)}, d \in {X_bb, X_cc}}

JarStoreDirs == SeqsUpTo(JarAssets, 2)

\* The key group.artifact.version of the record at a position.
BomKey(r) == <<"g", ".">> \o RecordNames[r] \o L_dot_version

\* The properties of the bom: none, the first record's version as it is in
\* the manifest, another version of it, and another version of the first
\* two records.
BomTables ==
    { <<>>,
      << [k |-> BomKey(1), v |-> <<"1">>] >>,
      << [k |-> BomKey(1), v |-> <<"2">>] >>,
      << [k |-> BomKey(1), v |-> <<"2">>], [k |-> BomKey(2), v |-> <<"2">>] >> }

MainInit ==
    /\ pc = "start"
    /\ args \in MainArgs
    /\ file \in MainManifests
    /\ file0 = file
    /\ scan = ScanInit
    /\ groupA = NoGroup
    /\ groupB = NoGroup
    /\ todo = <<>>
    /\ out = NoOut
    /\ effects = NoEffects

\* Lines 1014-1033: the WORKSPACE test, the parse and the filter.
MainParse ==
    /\ pc = "start"
    /\ IF IsNone(file)
       THEN /\ out' = exit(1)
            /\ pc' = "exited"
            /\ UNCHANGED groupA
       ELSE /\ groupA' = filter_assets(assets_from_bazel_file(file),
                                       asset_filter(args))
            /\ pc' = "parsed"
            /\ UNCHANGED out
    /\ UNCHANGED <<args, file, file0, scan, groupB, todo, effects>>

\* Lines 1036-1041: -u, with -c (check_dependencies_against_bom) or without
\* (update_dependencies_from_bom), once read_bom_properties has the table.
UpdateVersion(table, k) ==
    \E p \in {process_assets(read_bom_properties(table, asset_filter(args)),
                             groupA, k)} :
        IF p.raised # "no"
        THEN /\ out' = Traceback(p.raised)
             /\ effects' = [effects EXCEPT !.lookups = @ + p.lookups,
                                           !.tmp_files = @ + p.tmp_files]
             /\ UNCHANGED file
        ELSE IF args.check
        THEN /\ out' = exit(print_dependency_management_report(
                                <<>>, p.assets_to_update, p.skipped_assets, TRUE))
             /\ effects' = [effects EXCEPT !.lookups = @ + p.lookups]
             /\ UNCHANGED file
        ELSE \E u \in {update_bazel_file(file, p.assets_to_update)} :
                 IF u.raised
                 THEN /\ out' = Traceback("raised")
                      /\ effects' = [effects EXCEPT !.lookups = @ + p.lookups]
                      /\ UNCHANGED file
                 ELSE /\ out' = exit(print_dependency_management_report(
                                         u.updated_assets, p.assets_to_update,
                                         p.skipped_assets, FALSE))
                      /\ file' = u.file
                      /\ effects' = [effects EXCEPT !.lookups = @ + p.lookups,
                                                    !.writes = @ + 1]

\* -u: read_bom_properties exits with 1 when the bom cannot be had.
MainUpdateVersion ==
    /\ pc = "parsed"
    /\ args.update_version
    /\ \/ /\ out' = exit(1)
          /\ UNCHANGED <<file, effects>>
       \/ \E table \in BomTables, k \in FailingLookups(groupA) :
              UpdateVersion(table, k)
    /\ pc' = "exited"
    /\ UNCHANGED <<args, file0, scan, groupA, groupB, todo>>

\* Lines 1046-1050: -c without -u.
MainValidate ==
    /\ pc = "parsed"
    /\ ~args.update_version
    /\ args.check
    /\ out' = exit(print_validation_summary(groupA).issues)
    /\ pc' = "exited"
    /\ UNCHANGED <<args, file, file0, scan, groupA, groupB, todo, effects>>

\* Lines 1053-1055: -s without -u and -c.
MainSnapshotCheck ==
    /\ pc = "parsed"
    /\ ~args.update_version
    /\ ~args.check
    /\ args.snapshot_check
    /\ LET c == check_for_snapshot_assets(groupA)
       IN  out' = IF c.raised # "no" THEN Traceback(c.raised)
                  ELSE exit(c.num_of_snapshots)
    /\ pc' = "exited"
    /\ UNCHANGED <<args, file, file0, scan, groupA, groupB, todo, effects>>

\* Lines 1060-1065: nothing is left of the manifest after the filter.
MainNoAssets ==
    /\ pc = "parsed"
    /\ ~args.update_version
    /\ ~args.check
    /\ ~args.snapshot_check
    /\ Len(groupA.assets) = 0
    /\ out' = exit(1)
    /\ pc' = "exited"
    /\ UNCHANGED <<args, file, file0, scan, groupA, groupB, todo, effects>>

\* Lines 1092 on, for what the loader of the reference assets returned.
Acquire(l) ==
    /\ effects' = [effects EXCEPT !.lookups = @ + l.lookups,
                                  !.tmp_files = @ + l.tmp_files]
    /\ IF l.raised # "no"
       THEN /\ out' = Traceback(l.raised)
            /\ pc' = "exited"
            /\ UNCHANGED groupB
       ELSE /\ groupB' = filter_assets(l.group, asset_filter(args))
            /\ pc' = "acquired"
            /\ UNCHANGED out

\* Lines 1060-1092: the reference assets are loaded and filtered.
MainJarStore ==
    /\ pc = "parsed"
    /\ ~args.update_version
    /\ ~args.check
    /\ ~args.snapshot_check
    /\ Len(groupA.assets) # 0
    /\ IF ~Truthy(args.jar_store)
       THEN \E k \in FailingLookups(groupA) :
                Acquire(assets_from_default_repository(groupA.assets, k))
       ELSE IF isfile(args.jar_store)
       THEN \E other \in JarStoreFiles :
                Acquire([group |-> assets_from_bazel_file(other),
                         lookups |-> 0, tmp_files |-> 0, raised |-> "no"])
       ELSE IF isdir(args.jar_store)
       THEN \E jars \in JarStoreDirs :
                Acquire(assets_from_directory_walk(jars))
       ELSE \E k \in FailingLookups(groupA) :
                Acquire(assets_from_repository(args.jar_store, groupA.assets, k))
    /\ UNCHANGED <<args, file, file0, scan, groupA, todo>>

\* Lines 1098-1100 and 789: -p, replace_shas_in_file up to its loop.
MainReplaceShas ==
    /\ pc = "acquired"
    /\ args.patch
    /\ todo' = make_replacement_set(groupA, groupB)
    /\ out' = [op |-> "replace_shas_in_file", failed |-> 0]
    /\ pc' = "sed"
    /\ UNCHANGED <<args, file, file0, scan, groupA, groupB, effects>>

\* main returns: after the patch, or at once when -p is not given.
MainReturn ==
    /\ \/ pc = "patched"
       \/ pc = "acquired" /\ ~args.patch
    /\ out' = exit(0)
    /\ pc' = "exited"
    /\ UNCHANGED <<args, file, file0, scan, groupA, groupB, todo, effects>>

MainNext ==
    \/ MainParse
    \/ MainUpdateVersion
    \/ MainValidate
    \/ MainSnapshotCheck
    \/ MainNoAssets
    \/ MainJarStore
    \/ MainReplaceShas
    \/ SedSucceeds
    \/ SedFails
    \/ ReplaceShasDone
    \/ MainReturn

SpecMain == MainInit /\ [][MainNext]_vars

----------------------------------------------------------------------------
(* Claims on a run of main (SpecMain) *)

\* A validate-only run: -c without -u.
ValidateOnly == args.check /\ ~args.update_version

\* From start to exit a validate-only run writes nothing and looks nothing
\* up.
ValidateOnlyFrame == ValidateOnly => (effects = NoEffects /\ file = file0)

\* C10: a validate-only run (-c without -u) never writes the manifest file,
\* never invokes a reference digest lookup, and on a manifest that is there
\* its exit status is the validation issue count.
C10_ValidateOnly ==
    ValidateOnly =>
        /\ effects = NoEffects
        /\ file = file0
        /\ (pc = "exited" /\ ~IsNone(file0)) =>
               out.status = print_validation_summary(groupA).issues

----------------------------------------------------------------------------
(* SpecUpdate: update_bazel_file on a manifest and a dict of replacements *)

X_one == <<"1">>
X_two == <<"2">>

\* The declaration VERSION = "1", and the same indented by two spaces.
VersionDecl == Decl(N_VERSION, Quoted(X_one))

IndentedVersionDecl == <<" ", " ">> \o VersionDecl

CommentLine == <<"#"," ","v","e","r","s","i","o","n","s","\n">>

\* The artifact field of record a: the literal g:a:1, or "g:a:" + VERSION.
LiteralArtifact == Field(L_artifact, Quoted(CoordinateOf(1)))

VariableArtifact ==
    Field(L_artifact, Quoted(<<"g",":","a",":">>) \o L_plus \o N_VERSION)

\* Record a with its name line first, or with its name line last.
NameFirst(artifact_line) ==
    << L_maven_jar \o <<"\n">>, Field(L_name, Quoted(RecordNames[1])),
       artifact_line, Field(L_sha1, Quoted(X_aa)), L_close \o <<"\n">> >>

NameLast(artifact_line) ==
    << L_maven_jar \o <<"\n">>, Field(L_sha1, Quoted(X_aa)), artifact_line,
       Field(L_name, Quoted(RecordNames[1])), L_close \o <<"\n">> >>

\* The manifests enumerated: record a in either field order, with a literal
\* or a variable coordinate; VERSION declared nowhere, on the first line,
\* indented on the second line, or after the records; record b after record
\* a or not; every line ending in "\n" or every line ending in "\r\n".
UpdateManifests ==
    { [i \in DOMAIN f |-> WithEol(f[i], eol)] :
        f \in { before \o a \o b \o after :
                  a \in { NameFirst(LiteralArtifact), NameFirst(VariableArtifact),
                          NameLast(LiteralArtifact), NameLast(VariableArtifact) },
                  b \in { <<>>, PatchRecord(2, << Field(L_sha1, Quoted(X_aa)) >>) },
                  <<before, after>> \in
                      { << <<>>, <<>> >>,
                        << <<VersionDecl>>, <<>> >>,
                        << <<CommentLine, IndentedVersionDecl>>, <<>> >>,
                        << <<>>, <<VersionDecl>> >> } },
        eol \in {<<"\n">>, <<"\r", "\n">>} }

\* The replacement records for record a: the version as it is, another
\* version, or a snapshot build of it; the digest as it is or another.
Replacements ==
    { [Asset EXCEPT !.name = RecordNames[1], !.artifact = c, !.sha1 = d,
                    !.old_version = X_one] :
        c \in { CoordinateOf(1), <<"g",":","a",":">> \o X_two,
                <<"g",":","a",":">> \o X_two \o <<"-">> \o L_SNAPSHOT },
        d \in {X_aa, X_bb} }

\* The dicts update_bazel_file is given: the empty one, or one replacement
\* under the name of record a.
ReplacementMaps ==
    {<<>>} \cup { <<[k |-> new_asset.name, v |-> new_asset]>> :
                    new_asset \in Replacements }

UpdateInit0 ==
    /\ pc = "start"
    /\ args = [NoArgs EXCEPT !.update_version = TRUE]
    /\ file \in UpdateManifests
    /\ file0 = file
    /\ scan = ScanInit
    /\ groupA = NoGroup
    /\ groupB = NoGroup
    /\ todo = <<>>
    /\ out = NoOut
    /\ effects = NoEffects

\* update_bazel_file on the manifest, for one of the dicts.
UpdateReplace ==
    /\ pc = "ready"
    /\ \E assets_to_update \in ReplacementMaps :
        \E r \in {update_bazel_file(file, assets_to_update)} :
            /\ file' = r.file
            /\ out' = [op |-> "update_bazel_file",
                       assets_to_update |-> assets_to_update,
                       updated_assets |-> r.updated_assets,
                       raised |-> r.raised]
            /\ effects' = IF r.raised THEN effects
                          ELSE [effects EXCEPT !.writes = @ + 1]
    /\ pc' = "updated"
    /\ UNCHANGED <<args, file0, scan, groupA, groupB, todo>>

UpdateNext == PatchParse \/ UpdateReplace

SpecUpdate == UpdateInit0 /\ [][UpdateNext]_vars

----------------------------------------------------------------------------
(* Claims on update_bazel_file (SpecUpdate) *)

\* The line without its terminator and the blanks around it.
Stripped(raw) == strip(UniversalNewline(raw))

\* Line i of the manifest f lies inside a record: after the line of a
\* record-open marker and not after the record-close marker that follows it.
InsideRecord(f, i) ==
    \E j \in 1..i :
        /\ IsRecordOpen(Stripped(f[j]))
        /\ \A m \in (j + 1)..i : ~IsRecordClose(Stripped(f[m]))

\* Line i of f is a line of field k of a record.
IsFieldLine(f, i, k) ==
    /\ InsideRecord(f, i)
    /\ ~IsRecordOpen(Stripped(f[i]))
    /\ IsAssignment(Stripped(f[i]))
    /\ parse_property(Stripped(f[i])).k = k

\* The record that line i of f lies in, as the parser returned it.
RecordOf(f, i) == groupA.assets[RecordAt(f, i)]

\* Line i of f lies in a record that is selected for update: the name of
\* the record is a key of the dict.
InSelectedRecord(f, i) ==
    /\ InsideRecord(f, i)
    /\ RecordAt(f, i) \in DOMAIN groupA.assets
    /\ HasKey(out.assets_to_update, RecordOf(f, i).name)

\* The replacement record for the record that line i of f lies in.
ReplacementOf(f, i) == Lookup(out.assets_to_update, RecordOf(f, i).name)

\* update_bazel_file has returned and written the file.
Updated == pc = "updated" /\ ~out.raised

\* The line is a sha1 field in its disabled form, with the digest d.
IsDisabledSha(raw, d) ==
    /\ startswith(Stripped(raw), <<"#">> \o L_sha1)
    /\ contains(raw, Quoted(d))

\* C11: when a selected record's sha1 field differs from the digest of the
\* replacement record and the coordinate of the replacement denotes a
\* snapshot build, the sha1 line update_bazel_file writes is the disabled
\* form with the new digest, never an active field.
C11_SnapshotDigestDisabled ==
    Updated =>
        \A i \in DOMAIN file0 :
            (/\ IsFieldLine(file0, i, L_sha1)
             /\ InSelectedRecord(file0, i)
             /\ parse_property(Stripped(file0[i])).v # ReplacementOf(file0, i).sha1
             /\ contains(ReplacementOf(file0, i).artifact, L_SNAPSHOT)) =>
                IsDisabledSha(file[i], ReplacementOf(file0, i).sha1)

\* The same for a sha1 line that stands after the name line of its record.
SnapshotDigestDisabledAfterName ==
    Updated =>
        \A i \in DOMAIN file0 :
            (/\ IsFieldLine(file0, i, L_sha1)
             /\ InSelectedRecord(file0, i)
             /\ \E j \in 1..(i - 1) :
                    IsFieldLine(file0, j, L_name) /\ RecordAt(file0, j) = RecordAt(file0, i)
             /\ parse_property(Stripped(file0[i])).v # ReplacementOf(file0, i).sha1
             /\ contains(ReplacementOf(file0, i).artifact, L_SNAPSHOT)) =>
                IsDisabledSha(file[i], ReplacementOf(file0, i).sha1)

----------------------------------------------------------------------------
(* Claims on the errors of a run of main (SpecMain) *)

\* The run has ended on a manifest of which the filter left nothing.
EndedOnEmptyCollection ==
    pc = "exited" /\ ~IsNone(file0) /\ Len(groupA.assets) = 0

\* Without -u, -c and -s the test of lines 1060-1065 is reached: the run
\* exits with 1 and has made no lookup and no write.
EmptyCollectionAbortsPatchRun ==
    (EndedOnEmptyCollection
        /\ ~args.update_version /\ ~args.check /\ ~args.snapshot_check) =>
        (out = exit(1) /\ effects = NoEffects /\ file = file0)

\* C13: when nothing is left of the manifest after the filter, the run ends
\* with a non-zero exit status and has made no lookup and no write, whatever
\* the run mode (-c, -s, -u or the patch run).
C13_EmptyCollectionAborts ==
    EndedOnEmptyCollection =>
        (out.status # 0 /\ effects = NoEffects /\ file = file0)

\* Every replacement of the set has been attempted when replace_shas_in_file
\* returns, whatever failed on the way.
AllReplacementsAttempted == pc = "patched" => todo = <<>>

\* C14: in a patch run in which the patch command of a replacement fails,
\* the remaining replacements are still attempted and the exit status of the
\* process is not zero.
C14_PatchFailureInExitStatus ==
    [][(pc = "patched" /\ pc' = "exited") =>
           (todo = <<>> /\ (out.failed > 0 => out'.status # 0))]_vars

\* The one configuration error a run can end on by an exception: --jar_store
\* is neither a file, a directory, a prefix nor a known repository name
\* (lines 606-609).
UnknownJarStore ==
    /\ ~args.update_version /\ ~args.check /\ ~args.snapshot_check
    /\ Truthy(args.jar_store)
    /\ ~isfile(args.jar_store) /\ ~isdir(args.jar_store)
    /\ ~endswith(args.jar_store, <<":">>)
    /\ ~HasKey(known_repos, args.jar_store)

\* C15: an error of one record (a record the filter keeps whose coordinate
\* is absent or has not three parts, or whose lookup fails) never ends the
\* run: a run ends by an uncaught exception only on a configuration error.
C15_RecordErrorsNeverAbort ==
    (pc = "exited" /\ out.op = "raise") => UnknownJarStore

\* A run that did not end by an exception left no temporary file: every
\* lookup that returned has passed lines 695-696.
TemporaryFileRemovedOnReturn ==
    (pc = "exited" /\ out.op = "exit") => effects.tmp_files = 0

\* C16: the temporary file of a lookup of asset_from_repo is gone when the
\* lookup ends, whether the command succeeded, failed, or another exception
\* was raised: no temporary file of a lookup is ever left on disk.
C16_TemporaryFileRemoved == effects.tmp_files = 0

----------------------------------------------------------------------------
(* SpecLines: the scanner of assets_from_bazel_file on files made of any
   lines of a pool, in any order *)

\* The longest file, in lines.
MaxLines == 4

\* An open marker that is also an assignment.
OpenWithField ==
    L_maven_jar \o L_name \o <<" ","="," ">> \o Quoted(RecordNames[2]) \o <<",","\n">>

\* An open marker, an open marker that carries a field, a close marker, two
\* name fields, a variable declaration and a comment.
LinePool ==
    { L_maven_jar \o <<"\n">>, OpenWithField, <<" "," ">> \o L_close \o <<"\n">>,
      Field(L_name, Quoted(RecordNames[1])), Field(L_name, Quoted(RecordNames[2])),
      VersionDecl, CommentLine }

LinesInit ==
    /\ pc = "scan"
    /\ args = NoArgs
    /\ file \in SeqsUpTo(LinePool, MaxLines)
    /\ file0 = file
    /\ scan = ScanInit
    /\ groupA = NoGroup
    /\ groupB = NoGroup
    /\ todo = <<>>
    /\ out = NoOut
    /\ effects = NoEffects

LinesNext == ParseLine \/ ParseResolveEnv \/ ParseResolveAssets

SpecLines == LinesInit /\ [][LinesNext]_vars

\* Line i of the file as the loop sees it.
LineAt(f, i) == strip(readlines(f)[i])

IsOpenAt(f, i) == IsRecordOpen(LineAt(f, i))

IsCloseAt(f, i) == IsRecordClose(LineAt(f, i))

\* Line i is an open marker, line j the first close marker after it, and no
\* other open marker stands between them.
ClosedBy(f, i, j) ==
    /\ i < j
    /\ IsOpenAt(f, i)
    /\ IsCloseAt(f, j)
    /\ \A m \in (i + 1)..(j - 1) : ~IsOpenAt(f, m) /\ ~IsCloseAt(f, m)

\* The record of the assignment lines i..(j - 1).
RECURSIVE FieldsBetween(_, _, _, _)
FieldsBetween(asset, f, i, j) ==
    IF i >= j THEN asset
    ELSE LET kv == parse_property(LineAt(f, i))
         IN  FieldsBetween(IF IsAssignment(LineAt(f, i))
                           THEN SetItem(asset, kv.k, kv.v) ELSE asset,
                           f, i + 1, j)

\* One record for each open marker of the first n lines that a close marker
\* among them follows with no other open marker in between, in the order of
\* the file.
RECURSIVE ClosedRecords(_, _)
ClosedRecords(f, n) ==
    IF n = 0 THEN <<>>
    ELSE IF \E i \in 1..n : ClosedBy(f, i, n)
    THEN Append(ClosedRecords(f, n - 1),
                FieldsBetween(Asset, f, CHOOSE i \in 1..n : ClosedBy(f, i, n), n))
    ELSE ClosedRecords(f, n - 1)

NamesOf(assets) == [i \in DOMAIN assets |-> assets[i].name]

\* The line the loop is about to read is neither a marker nor an assignment.
AtOtherLine ==
    /\ pc = "scan"
    /\ scan.i <= Len(file)
    /\ ~IsOpenAt(file, scan.i)
    /\ ~IsCloseAt(file, scan.i)
    /\ ~IsAssignment(LineAt(file, scan.i))

----------------------------------------------------------------------------
(* Claims on the lines update_bazel_file rewrites (SpecUpdate) *)

\* Line i of f stands after the name line of the record it lies in.
AfterNameLine(f, i) ==
    \E j \in 1..(i - 1) :
        IsFieldLine(f, j, L_name) /\ RecordAt(f, j) = RecordAt(f, i)

\* The value of the assignment on line i of f.
ValueAt(f, i) == parse_property(Stripped(f[i])).v

\* Line d of f declares the variable that the artifact field on line i
\* refers to by "+" concatenation.
DeclaresVariableOf(f, d, i) ==
    /\ ~InsideRecord(f, d)
    /\ IsAssignment(Stripped(f[d]))
    /\ IsFieldLine(f, i, L_artifact)
    /\ HasVariable(ValueAt(f, i))
    /\ parse_property(Stripped(f[d])).k = strip(split(ValueAt(f, i), "+")[2])

\* The version component of the replacement coordinate.
VersionOf(new_asset) == split(new_asset.artifact, ":")[3]

\* The declaration as the variable rule writes it.
RewrittenDecl(raw, version) ==
    LET line == UniversalNewline(raw)
    IN  Spaces(Len(line) - Len(lstrip_spaces(line)))
            \o parse_property(strip(line)).k
            \o <<" ","="," ","\"">> \o version \o <<"\"","\n">>

\* Line d of the manifest declares the variable of the artifact field on
\* line i of a selected record, after the name line of that record, and the
\* declared value is not the version of the replacement.
VariableRuleApplies(d, i) ==
    /\ DeclaresVariableOf(file0, d, i)
    /\ InSelectedRecord(file0, i)
    /\ AfterNameLine(file0, i)
    /\ ValueAt(file0, d) # VersionOf(ReplacementOf(file0, i))

\* The variable rule for a declaration that stands before the record and
\* not on the first line of the file.
DeclarationRewrittenBelowFirstLine ==
    pc = "updated" =>
        \A d \in DOMAIN file0, i \in DOMAIN file0 :
            (VariableRuleApplies(d, i) /\ 1 < d /\ d < i) =>
                file[d] = RewrittenDecl(file0[d], VersionOf(ReplacementOf(file0, i)))

\* C18: for a selected record whose artifact field refers to a variable by
\* "+" concatenation, when the declared value of the variable differs from
\* the version of the replacement coordinate, the declaration line is
\* rewritten to the new version with its indentation, wherever the
\* declaration stands in the file (first line, after the record).
C18_DeclarationRewritten ==
    pc = "updated" =>
        \A d \in DOMAIN file0, i \in DOMAIN file0 :
            VariableRuleApplies(d, i) =>
                file[d] = RewrittenDecl(file0[d], VersionOf(ReplacementOf(file0, i)))

\* Line i of f is a field line of a record.
IsAnyFieldLine(f, i) ==
    /\ InsideRecord(f, i)
    /\ ~IsRecordOpen(Stripped(f[i]))
    /\ IsAssignment(Stripped(f[i]))

\* Line i of the manifest is a line of a field the replacement record has,
\* in a selected record, with a value that is not the replacement's; the
\* artifact field of the variable rule is left aside.
FieldDiffers(i) ==
    /\ IsAnyFieldLine(file0, i)
    /\ HasAttr(parse_property(Stripped(file0[i])).k)
    /\ InSelectedRecord(file0, i)
    /\ ~HasVariable(ValueAt(file0, i))
    /\ ValueAt(file0, i) # GetAttr(ReplacementOf(file0, i),
                                   parse_property(Stripped(file0[i])).k)

\* The line written for line i carries the value of the replacement record.
CarriesNewValue(i) ==
    contains(file[i],
             Quoted(GetAttr(ReplacementOf(file0, i),
                            parse_property(Stripped(file0[i])).k)))

\* Every differing field line that stands after the name line of its record
\* is rewritten.
FieldsRewrittenAfterName ==
    Updated =>
        \A i \in DOMAIN file0 :
            (FieldDiffers(i) /\ AfterNameLine(file0, i)) => CarriesNewValue(i)

\* C19: in a selected record every line of a field the replacement record
\* has, whose value differs from the replacement's, is written with the new
\* value, whether it stands before or after the name line of the record.
C19_FieldsRewritten ==
    Updated => \A i \in DOMAIN file0 : FieldDiffers(i) => CarriesNewValue(i)

\* Line i of the manifest is one that update_bazel_file is to leave as it
\* is: a line of a record that is not selected, or a line that is not a field
\* line of a record, and not the declaration of a variable that the artifact
\* field of a selected record refers to.
ToBeKept(i) ==
    /\ \/ ~IsAnyFieldLine(file0, i)
       \/ ~InSelectedRecord(file0, i)
    /\ ~\E j \in DOMAIN file0 :
           DeclaresVariableOf(file0, i, j) /\ InSelectedRecord(file0, j)

\* The lines to be kept are byte-identical when every line of the manifest
\* ends in "\n".
KeptWithUnixLines ==
    (Updated /\ \A i \in DOMAIN file0 : UniversalNewline(file0[i]) = file0[i]) =>
        \A i \in DOMAIN file0 : ToBeKept(i) => file[i] = file0[i]

\* C20: update_bazel_file writes back byte-identical every line of a record
\* that is not selected and every line that is not a field line of a record
\* (markers, blank lines, comments), but for a variable declaration line
\* rewritten under the variable rule.
C20_OtherLinesKept ==
    Updated => \A i \in DOMAIN file0 : ToBeKept(i) => file[i] = file0[i]

----------------------------------------------------------------------------
(* Claims on the order of the replacements (SpecPatch) *)

\* The reference group holds two records for the coordinate of record r of
\* the manifest, the earlier with digest d1 and the later with digest d2,
\* two distinct digests that both differ from the digest of the manifest.
TwoReferences(r, d1, d2) ==
    /\ r \in DOMAIN groupA.assets
    /\ Len(groupB.assets) = 2
    /\ groupB.assets[1].artifact = groupA.assets[r].artifact
    /\ groupB.assets[2].artifact = groupA.assets[r].artifact
    /\ groupB.assets[1].sha1 = d1
    /\ groupB.assets[2].sha1 = d2
    /\ d1 # d2
    /\ {d1, d2, groupA.assets[r].sha1} \cap {None} = {}
    /\ groupA.assets[r].sha1 \notin {d1, d2}

\* replace_shas_in_file has returned and every sed command succeeded.
Patched == pc = "patched" /\ out.failed = 0

\* The sha1 line of record r of the manifest carries the digest d.
ShaLineCarries(r, d) ==
    \A i \in DOMAIN file :
        (IsShaLineOf(file0, i, groupA.assets[r].artifact) /\ RecordAt(file0, i) = r) =>
            parse_property(strip(UniversalNewline(file[i]))).v = d

\* With two references for one coordinate the first replacement rewrites the
\* digest and the second finds nothing to replace: the earlier one stays.
EarlierReferenceWins ==
    Patched =>
        \A r \in 1..MaxRecords, d1 \in {X_aa, X_bb, X_cc}, d2 \in {X_aa, X_bb, X_cc} :
            TwoReferences(r, d1, d2) => ShaLineCarries(r, d1)

\* C21: when two reference records match one coordinate of the manifest with
\* two distinct digests that both differ from the digest of the manifest,
\* the manifest carries the digest of the later reference record after
\* replace_shas_in_file.
C21_LaterReferenceWins ==
    Patched =>
        \A r \in 1..MaxRecords, d1 \in {X_aa, X_bb, X_cc}, d2 \in {X_aa, X_bb, X_cc} :
            TwoReferences(r, d1, d2) => ShaLineCarries(r, d2)

----------------------------------------------------------------------------
(* Claims on the reference records of a run of main (SpecMain) *)

\* The reference group was built by one repository lookup for each record
\* of the manifest collection, and each reference record has the digest of
\* the record it was copied from.
ReferencesKeepDigests ==
    /\ pc \in {"patched", "exited"}
    /\ out.op # "raise"
    /\ args.patch /\ ~args.update_version /\ ~args.check /\ ~args.snapshot_check
    /\ Len(groupA.assets) > 0
    /\ effects.lookups = Len(groupA.assets)
    /\ Len(groupB.assets) = Len(groupA.assets)
    /\ \A i \in DOMAIN groupA.assets : groupB.assets[i].sha1 = groupA.assets[i].sha1

\* No two records of the manifest collection have the same coordinate.
DistinctCoordinates ==
    \A i, j \in DOMAIN groupA.assets :
        groupA.assets[i].artifact = groupA.assets[j].artifact => i = j

\* With distinct coordinates the patch that follows lookups that found
\* nothing new leaves the manifest as it was.
KeptDigestsPatchNothingOnDistinctCoordinates ==
    (ReferencesKeepDigests /\ DistinctCoordinates) => file = file0

\* C22: when the lookup finds no new digest for any record, each reference
\* record keeps the digest of the manifest record it was copied from and the
\* patch that follows leaves the manifest file unchanged, for every
\* manifest, one where two records share a coordinate included.
C22_KeptDigestsPatchNothing == ReferencesKeepDigests => file = file0

----------------------------------------------------------------------------
(* SpecProcess: process_assets on a group of records and the properties of
   the bom *)

\* org.eclipse.jgit:org.eclipse.jgit:1
JgitCoordinate == L_jgit \o <<":">> \o L_jgit \o <<":">> \o X_one

\* The records of the group: with the name a, b or none; with the coordinate
\* g:a:1, g:a:2, that of jgit, or one of two parts.
ProcessAssets ==
    {[Asset EXCEPT !.name = n, !.artifact = c, !.sha1 = X_aa] :
        n \in {RecordNames[1], RecordNames[2], None},
        c \in {CoordinateOf(1), <<"g",":","a",":">> \o X_two, JgitCoordinate,
               <<"g",":","a">>}}

\* The properties: none, g.a.version at 1, at 2, and with that of jgit at 2.
ProcessTables ==
    BomTables \cup
        { << [k |-> BomKey(1), v |-> X_two],
             [k |-> L_jgit \o L_dot_version, v |-> X_two] >> }

ProcessInit ==
    /\ pc = "start"
    /\ args = [NoArgs EXCEPT !.update_version = TRUE]
    /\ file = None
    /\ file0 = None
    /\ scan = ScanInit
    /\ \E assets \in SeqsUpTo(ProcessAssets, MaxRecords) :
           groupA = AssetGroup("FILE", assets, <<>>)
    /\ groupB = NoGroup
    /\ todo = <<>>
    /\ \E table \in ProcessTables : out = [op |-> "none", properties |-> table]
    /\ effects = NoEffects

\* process_assets(properties, build_file_assets, check), for the lookup that
\* fails, if one does.
ProcessRun ==
    /\ pc = "start"
    /\ \E k \in FailingLookups(groupA) :
        \E p \in {process_assets(out.properties, groupA, k)} :
            /\ out' = [op |-> "process_assets", properties |-> out.properties,
                       assets_to_update |-> p.assets_to_update,
                       skipped_assets |-> p.skipped_assets,
                       raised |-> p.raised]
            /\ effects' = [effects EXCEPT !.lookups = @ + p.lookups,
                                          !.tmp_files = @ + p.tmp_files]
    /\ pc' = "processed"
    /\ UNCHANGED <<args, file, file0, scan, groupA, groupB, todo>>

ProcessNext == ProcessRun

SpecProcess == ProcessInit /\ [][ProcessNext]_vars

\* The parts of the coordinate of a record.
PartsOf(asset) == split(asset.artifact, ":")

\* The key of the version of a record in the properties.
PropertyKeyOf(asset) ==
    (IF PartsOf(asset)[2] = L_jgit THEN L_jgit
     ELSE PartsOf(asset)[1] \o <<".">> \o PartsOf(asset)[2]) \o L_dot_version

\* The record has a coordinate of three parts and the properties hold the
\* key of its version.
HasAuthoritativeVersion(asset) ==
    /\ asset.artifact # None
    /\ Len(PartsOf(asset)) >= 3
    /\ HasKey(out.properties, PropertyKeyOf(asset))

\* The record is among the skipped ones, as it is.
IsSkipped(asset) ==
    \E i \in DOMAIN out.skipped_assets : out.skipped_assets[i].v = asset

\* The record is among those to update, as a new record that differs from
\* it in the coordinate and the previous version.
IsToUpdate(asset) ==
    \E i \in DOMAIN out.assets_to_update :
        LET new_asset == out.assets_to_update[i].v
        IN  /\ new_asset = [asset EXCEPT !.artifact = new_asset.artifact,
                                         !.old_version = new_asset.old_version]
            /\ new_asset.old_version # None

\* The record is to update with the coordinate and the previous version
\* the claim names.
IsUpdatedTo(asset, version) ==
    \E i \in DOMAIN out.assets_to_update :
        out.assets_to_update[i].v =
            [asset EXCEPT !.artifact = PartsOf(asset)[1] \o <<":">>
                                           \o PartsOf(asset)[2] \o <<":">> \o version,
                          !.old_version = PartsOf(asset)[3]]

\* The classification of one record of the group.
ClassifiedOneWay(asset) ==
    IF ~HasAuthoritativeVersion(asset)
    THEN ~IsSkipped(asset) /\ ~IsToUpdate(asset)
    ELSE IF PartsOf(asset)[3] = Lookup(out.properties, PropertyKeyOf(asset))
    THEN IsSkipped(asset) /\ ~IsToUpdate(asset)
    ELSE /\ IsUpdatedTo(asset, Lookup(out.properties, PropertyKeyOf(asset)))
         /\ ~IsSkipped(asset)

\* The keys under which process_assets files the records are all different.
DistinctKeys ==
    \A i, j \in DOMAIN groupA.assets :
        (/\ groupA.assets[i].artifact # None
         /\ groupA.assets[j].artifact # None
         /\ Len(PartsOf(groupA.assets[i])) >= 3
         /\ Len(PartsOf(groupA.assets[j])) >= 3
         /\ i # j) =>
            /\ groupA.assets[i].name # groupA.assets[j].name
            /\ ~(PartsOf(groupA.assets[i])[2] = L_jgit
                    /\ PartsOf(groupA.assets[j])[2] = L_jgit)

\* When process_assets returns and no two records are filed under one key,
\* every record is classified as the claim says.
ClassifiedWhenReturnedWithDistinctKeys ==
    (pc = "processed" /\ out.raised = "no" /\ DistinctKeys) =>
        \A i \in DOMAIN groupA.assets : ClassifiedOneWay(groupA.assets[i])

\* C23: in process_assets every record whose version key is in the
\* properties is classified exactly one way: skipped if and only if its
\* version is the authoritative one, otherwise to update with a new record
\* whose coordinate is group:artifact:authoritative-version and whose
\* previous version is the record's version; a record whose key is absent
\* is neither skipped nor to update.
C23_ClassifiedOneWay ==
    pc = "processed" =>
        \A i \in DOMAIN groupA.assets : ClassifiedOneWay(groupA.assets[i])

----------------------------------------------------------------------------
(* SpecCopy: the records as objects.  The heap is the sequence of the Asset
   objects made so far and an object is known by its position in it; the
   records of the manifest collection are the first objects of the heap. *)

\* The members of an Asset, as __init__ sets them.
AssetKeys ==
    <<L_name, L_artifact, L_repository, L_sha1, L_src_sha1, L_old_version>>

\* "for key in self.__dict__: new[key] = self.__dict__[key]", for the first
\* n members.
RECURSIVE CopyKeys(_, _, _)
CopyKeys(new, self, n) ==
    IF n = 0 THEN new
    ELSE SetItem(CopyKeys(new, self, n - 1), AssetKeys[n],
                 GetAttr(self, AssetKeys[n]))

\* A copy that is the object itself.
CopyAlias(heap, id) == [heap |-> heap, id |-> id]

\* Asset.__copy__: a new object with the members of the object id.
copy(heap, id) ==
    [heap |-> Append(heap, CopyKeys(Asset, heap[id], Len(AssetKeys))),
     id |-> Len(heap) + 1]

\* asset_from_repo on the object id: the coordinate is unpacked (line 654)
\* before the copy is made (line 664); the object returned is the copy.
AssetFromRepoObject(heap, id, repo_name, outcome) ==
    LET r == asset_from_repo(heap[id], repo_name, outcome)
        new_asset == copy(heap, id)
    IN  IF ~r.invoked
        THEN [heap |-> heap, id |-> id, invoked |-> FALSE, raised |-> r.raised]
        ELSE [heap |-> new_asset.heap, id |-> new_asset.id, invoked |-> TRUE,
              raised |-> r.raised]

\* "for asset in reference_assets: assets.append(asset_from_repo(...))" on
\* the objects ids.
RECURSIVE LookupObjects(_, _, _, _)
LookupObjects(acc, ids, repo_name, k) ==
    IF acc.raised # "no" \/ ids = <<>> THEN acc
    ELSE LET r == AssetFromRepoObject(acc.heap, Head(ids), repo_name,
                                      OutcomeAfter(acc.lookups, k))
         IN  LookupObjects(
                 [heap |-> r.heap,
                  assets |-> IF r.raised = "no" THEN Append(acc.assets, r.id)
                             ELSE acc.assets,
                  lookups |-> acc.lookups + (IF r.invoked THEN 1 ELSE 0),
                  raised |-> r.raised],
                 Tail(ids), repo_name, k)

\* The loop of process_assets on the objects ids; the dicts hold objects.
RECURSIVE ProcessObjects(_, _, _, _)
ProcessObjects(acc, ids, properties, k) ==
    IF acc.raised # "no" \/ ids = <<>> THEN acc
    ELSE LET asset == acc.heap[Head(ids)]
             artifact_split == split(asset.artifact, ":")
             group_id == artifact_split[1]
             artifact_id == artifact_split[2]
             version == artifact_split[3]
             property_key ==
                 (IF artifact_id = L_jgit THEN artifact_id
                  ELSE group_id \o <<".">> \o artifact_id) \o L_dot_version
             property_version == Lookup(properties, property_key)
             new_asset == copy(acc.heap, Head(ids))
             heap1 == [new_asset.heap EXCEPT ![new_asset.id] =
                          SetItem(SetItem(@, L_artifact,
                                          group_id \o <<":">> \o artifact_id
                                              \o <<":">> \o property_version),
                                  L_old_version, version)]
             r == AssetFromRepoObject(heap1, new_asset.id,
                                      heap1[new_asset.id].repository,
                                      OutcomeAfter(acc.lookups, k))
             key == IF artifact_id = L_jgit THEN artifact_id
                    ELSE r.heap[r.id].name
         IN  IF asset.artifact = None
             THEN [acc EXCEPT !.raised = "AttributeError"]
             ELSE IF Len(artifact_split) < 3
             THEN [acc EXCEPT !.raised = "IndexError"]
             ELSE IF ~HasKey(properties, property_key)
             THEN ProcessObjects(acc, Tail(ids), properties, k)
             ELSE IF version = property_version
             THEN ProcessObjects(
                      [acc EXCEPT !.skipped_assets = DictSet(@, asset.name, Head(ids))],
                      Tail(ids), properties, k)
             ELSE IF r.raised # "no"
             THEN [acc EXCEPT !.heap = r.heap, !.raised = r.raised,
                              !.lookups = @ + (IF r.invoked THEN 1 ELSE 0)]
             ELSE ProcessObjects(
                      [acc EXCEPT !.heap = r.heap,
                                  !.assets_to_update = DictSet(@, key, r.id),
                                  !.lookups = @ + 1],
                      Tail(ids), properties, k)

\* The objects of a dict or of a list, read from the heap.
ObjectsOf(heap, d) == [i \in DOMAIN d |-> [k |-> d[i].k, v |-> heap[d[i].v]]]

\* The objects of the manifest collection.
ManifestObjects == [i \in DOMAIN groupA.assets |-> i]

\* assets_from_repository('X:', all_assets): the reference collection is
\* built of the records of the manifest collection.
CopyFromRepository ==
    /\ pc = "start"
    /\ \E k \in FailingLookups(groupA) :
        \E r \in {LookupObjects([heap |-> groupA.assets, assets |-> <<>>,
                                 lookups |-> 0, raised |-> "no"],
                                ManifestObjects, P_prefix, k)} :
            /\ groupA' = [groupA EXCEPT
                             !.assets = SubSeq(r.heap, 1, Len(groupA.assets))]
            /\ groupB' = AssetGroup("REPO",
                                    [i \in DOMAIN r.assets |-> r.heap[r.assets[i]]],
                                    <<>>)
            /\ out' = [op |-> "assets_from_repository",
                       properties |-> out.properties, k |-> k,
                       raised |-> r.raised]
            /\ effects' = [effects EXCEPT !.lookups = @ + r.lookups]
    /\ pc' = "built"
    /\ UNCHANGED <<args, file, file0, scan, todo>>

\* process_assets: the records to update are built of the records of the
\* manifest collection.
CopyProcessAssets ==
    /\ pc = "start"
    /\ \E k \in FailingLookups(groupA) :
        \E p \in {ProcessObjects([heap |-> groupA.assets,
                                  assets_to_update |-> <<>>,
                                  skipped_assets |-> <<>>,
                                  lookups |-> 0, raised |-> "no"],
                                 ManifestObjects, out.properties, k)} :
            /\ groupA' = [groupA EXCEPT
                             !.assets = SubSeq(p.heap, 1, Len(groupA.assets))]
            /\ groupB' = AssetGroup("REPO",
                                    [i \in DOMAIN p.assets_to_update |->
                                        p.heap[p.assets_to_update[i].v]],
                                    <<>>)
            /\ out' = [op |-> "process_assets",
                       properties |-> out.properties, k |-> k,
                       assets_to_update |-> ObjectsOf(p.heap, p.assets_to_update),
                       skipped_assets |-> ObjectsOf(p.heap, p.skipped_assets),
                       raised |-> p.raised]
            /\ effects' = [effects EXCEPT !.lookups = @ + p.lookups]
    /\ pc' = "built"
    /\ UNCHANGED <<args, file, file0, scan, todo>>

CopyNext == CopyFromRepository \/ CopyProcessAssets

SpecCopy == ProcessInit /\ [][CopyNext]_vars

\* The dicts of process_assets on the objects are those of process_assets
\* on the values.
ObjectsAgreeWithValues ==
    (pc = "built" /\ out.op = "process_assets") =>
        \E p \in {process_assets(out.properties, groupA, out.k)} :
            /\ p.raised = out.raised
            /\ out.raised = "no" =>
                   /\ p.assets_to_update = out.assets_to_update
                   /\ p.skipped_assets = out.skipped_assets

\* C24: building a reference record of a manifest record (asset_from_repo,
\* the UPDATE branch of process_assets) changes no field of the manifest
\* record: the substituted coordinate and the previous version are in the
\* returned copy only, and the manifest collection is the same before and
\* after the reference collection is built.
C24_ManifestRecordsKept ==
    [][pc' = "built" =>
          /\ groupA' = groupA
          /\ \A i \in DOMAIN groupA'.assets : groupA'.assets[i].old_version = None]_vars

\* A reference collection has been built that holds a record to update, with
\* its previous version and a coordinate that is not that of any manifest
\* record of its name.
C24_Witness ==
    /\ pc = "built"
    /\ out.op = "process_assets"
    /\ \E i \in DOMAIN groupB.assets :
           /\ groupB.assets[i].old_version # None
           /\ \A j \in DOMAIN groupA.assets :
                  groupA.assets[j].artifact # groupB.assets[i].artifact

====
